---- MODULE Spec2Model ----
(***************************************************************************)
(* A model of refinery's MSI table decoder (refinery/units/formats/msi.py): *)
(* the string pool MSIStringData, the column typing MSITableColumnInfo and  *)
(* the generator xtmsi.unpack, stepped statement by statement; and of the    *)
(* units packbits (refinery/units/signals/packbits.py) and interp           *)
(* (refinery/units/pattern/interp.py), each a call of process() stepped     *)
(* through its loop.                                                        *)
(*                                                                         *)
(* Representation:                                                         *)
(*  - a byte string is a sequence of numbers 0..255;                        *)
(*  - a text (python str) is a sequence of code points; a byte string is    *)
(*    turned into a text only by Decode;                                    *)
(*  - an integer read from a stream by struct is kept as its two 16-bit     *)
(*    halves [lo, hi] (value = lo + 65536 * hi), because a u32 does not fit *)
(*    the 32-bit signed integers of the model checker; a 'H' field has      *)
(*    hi = 0;                                                               *)
(*  - a decoded cell value is tagged: [tag |-> "int", v |-> n] or           *)
(*    [tag |-> "str", v |-> text];                                          *)
(*  - a python dict is a function (streams) or, where its key order         *)
(*    matters, a sequence of records in insertion order (tables).           *)
(***************************************************************************)
EXTENDS Integers, Sequences, FiniteSets, TLC

VARIABLES
    input,                 \* the stream mapping handed to unpack
    debug,                 \* whether log_debug emits its messages (the log level of the run)
    prev,                  \* what an earlier run on the same tables gave, for comparison
    pc,                    \* position in the code
    error,                 \* the exception that ended the run, or "none"
    streams,               \* msi.py:156  streams: path -> bytes
    order,                 \* the key order of the dict streams
    codepage,              \* msi.py:93   MSIStringData.codepage
    strings,               \* msi.py:90   MSIStringData.strings
    provided_ref_count,    \* msi.py:91
    computed_ref_count,    \* msi.py:92
    calls,                 \* the string pool calls made by the last step
    ret,                   \* what the last MSIStringData call returned or raised
    tables,                \* msi.py:172  tables: table name -> (column name -> info)
    site,                  \* which loop runs stream_to_rows: "catalog" (175) or "table" (196)
    gen,                   \* msi.py:164-170  the locals of the running stream_to_rows
    rec,                   \* msi.py:175  tbl_name_id, col_number, col_name_id, col_attributes
    tbl,                   \* msi.py:190  position of the loop over tables.items()
    row,                   \* msi.py:196  row
    values,                \* msi.py:197  values
    processed,             \* msi.py:194  processed
    processed_table_data,  \* msi.py:188
    table_names_given,     \* msi.py:180
    log,                   \* the log calls made (msi.py:183-186, 266, 269), message -> count
    inconsistencies,       \* msi.py:262
    out,                   \* the results yielded so far (msi.py:282-284)
    packbits,              \* packbits.py: the arguments of a unit and the locals of its process()
    interp                 \* interp.py: the arguments of a unit and the locals of its process()

poolvars == <<codepage, strings, provided_ref_count, computed_ref_count>>
genvars == <<site, gen>>
rowvars == <<row, values>>
tablevars == <<tables, rec, tbl, processed, processed_table_data>>
namevars == <<table_names_given, log>>
outvars == <<inconsistencies, out>>
unitvars == <<packbits, interp>>
runvars == <<input, debug, prev, unitvars>>
unpackvars == <<genvars, rowvars, tablevars, namevars, outvars>>
msivars == <<input, debug, prev, pc, error, streams, order, poolvars, calls, ret, unpackvars>>
vars == <<runvars, pc, error, streams, order, poolvars, calls, ret, unpackvars>>

----------------------------------------------------------------------------
(* Bounds of the model.                                                    *)

\* the number of records of a string pool drawn for the pool specification
MaxPool == 2
\* a computed reference count is driven no higher than this by PoolSpec
MaxRefs == 2
\* the number of columns of the table whose rows are varied
MaxCols == 2
\* the number of rows of the table whose rows are varied
MaxRows == 2
\* the number of bytes added after the last whole row of a stream
MaxExtra == 1
\* the number of records of a varied column catalog
MaxCat == 3
\* the number of rows of a varied CustomAction table
MaxActions == 2
\* the number of streams that are passed through, next to the decoder's own
MaxLeftover == 2
\* the number of bytes that follow the first whole byte of codewords of an
\* input of packbits
MaxTail == 1
\* the bytes of the enumerated inputs of interp
MaxData == 5
\* the chunks counted of a generator that never ends
MaxYield == 3

----------------------------------------------------------------------------
(* Texts and bytes.                                                        *)

NameStringData == <<33, 95, 83, 116, 114, 105, 110, 103, 68, 97, 116, 97>>  \* '!_StringData'
NameStringPool == <<33, 95, 83, 116, 114, 105, 110, 103, 80, 111, 111, 108>>  \* '!_StringPool'
NameColumns == <<33, 95, 67, 111, 108, 117, 109, 110, 115>>  \* '!_Columns'
NameTables == <<33, 95, 84, 97, 98, 108, 101, 115>>  \* '!_Tables'

RECURSIVE BitAnd(_, _)
\* a & b on non-negative integers
BitAnd(a, b) ==
    IF a = 0 \/ b = 0 THEN 0
    ELSE (a % 2) * (b % 2) + 2 * BitAnd(a \div 2, b \div 2)

\* struct '<H' at byte offset pos (0-based) of data
U16At(data, pos) == data[pos + 1] + 256 * data[pos + 2]

\* struct '<H' and '<I' at offset pos, as halves
ReadH(data, pos) == [lo |-> U16At(data, pos), hi |-> 0]
ReadI(data, pos) == [lo |-> U16At(data, pos), hi |-> U16At(data, pos + 2)]

\* bytes data[pos : pos + size]
Slice(data, pos, size) == SubSeq(data, pos + 1, pos + size)

----------------------------------------------------------------------------
(* MSIStringData                                                           *)

\* msi.py:102-108: the codec python knows as cp<codepage>, else latin1. What
\* the call xtmsi.log_info of msi.py:107 does on the way to the fallback is
\* decided outside this file, so the inputs of the model draw the codepage
\* from {437, 1252}, for which the lookup succeeds.
codec(cp) ==
    IF cp = 1252 THEN "cp1252" ELSE IF cp = 437 THEN "cp437" ELSE "latin1"

\* One byte decoded. The three codecs agree on ASCII; byte 0x80 is U+20AC
\* under cp1252, U+00C7 under cp437 and U+0080 under latin1; byte 0x81 is
\* U+00FC under cp437 and U+0081 under latin1. The pools of the model hold
\* ASCII bytes, 0x80 and 0x81 only.
DecodeByte(cd, b) ==
    IF b = 128 /\ cd = "cp1252" THEN 8364
    ELSE IF b = 128 /\ cd = "cp437" THEN 199
    ELSE IF b = 129 /\ cd = "cp437" THEN 252
    ELSE b

\* the bytes a codec maps to no character: five under cp1252, none under
\* cp437 and latin1
Undefined(cd) == IF cd = "cp1252" THEN {129, 141, 143, 144, 157} ELSE {}

\* bytes.decode(codec) raises UnicodeDecodeError on a byte the codec does
\* not define
DecodeError(cd, bytes) ==
    IF \E k \in 1..Len(bytes) : bytes[k] \in Undefined(cd)
    THEN "UnicodeDecodeError"
    ELSE "none"

\* bytes.decode(codec) of bytes the codec defines
Decode(cd, bytes) == [k \in 1..Len(bytes) |-> DecodeByte(cd, bytes[k])]

RECURSIVE PoolLoopNoAdvance(_, _, _, _, _)
\* PoolLoop with every string cut from the start of the data stream: the
\* position in the data is not moved on by the strings read before
PoolLoopNoAdvance(string_data, string_pool, ppos, dpos, acc) ==
    IF ppos = Len(string_pool) THEN [err |-> "none", entries |-> acc]
    ELSE IF ppos + 4 > Len(string_pool) THEN [err |-> "EOFError", entries |-> acc]
    ELSE LET size == U16At(string_pool, ppos)
             rc   == U16At(string_pool, ppos + 2)
         IN  IF dpos + size > Len(string_data)
             THEN [err |-> "EOFError", entries |-> acc]
             ELSE PoolLoopNoAdvance(string_data, string_pool, ppos + 4, dpos,
                      Append(acc, [string |-> Slice(string_data, dpos, size), rc |-> rc]))

RECURSIVE PoolLoop(_, _, _, _, _)
\* msi.py:95-100, from pool offset ppos and data offset dpos, with the entries
\* acc read so far: the loop ends at the end of the pool stream, and a read
\* beyond the end of either stream raises EOFError.
PoolLoop(string_data, string_pool, ppos, dpos, acc) ==
    IF ppos = Len(string_pool) THEN [err |-> "none", entries |-> acc]
    ELSE IF ppos + 4 > Len(string_pool) THEN [err |-> "EOFError", entries |-> acc]
    ELSE LET size == U16At(string_pool, ppos)
             rc   == U16At(string_pool, ppos + 2)
         IN  IF dpos + size > Len(string_data)
             THEN [err |-> "EOFError", entries |-> acc]
             ELSE PoolLoop(string_data, string_pool, ppos + 4, dpos + size,
                      Append(acc, [string |-> Slice(string_data, dpos, size), rc |-> rc]))

\* msi.py:87-100 MSIStringData.__init__
MSIStringDataInit(string_data, string_pool) ==
    IF Len(string_pool) < 4
    THEN [err |-> "EOFError", codepage |-> 0, entries |-> <<>>]
    ELSE LET r == PoolLoop(string_data, string_pool, 4, 0, <<>>)
         IN  [err |-> r.err, codepage |-> U16At(string_pool, 0), entries |-> r.entries]

\* msi.py:116-117 __contains__
Contains(strs, index) == 0 < index /\ index <= Len(strs)

\* msi.py:119-126 ref: the exception it raises, or "none". The assertion
\* stops index <= 0; after index -= 1 the two list accesses raise IndexError
\* for an index past the end.
RefError(strs, index) ==
    IF ~(index > 0) THEN "AssertionError"
    ELSE IF index - 1 >= Len(strs) THEN "IndexError"
    ELSE "none"

\* msi.py:122-123: the computed counts after ref(index, increment)
RefCounts(strs, computed, index, increment) ==
    IF RefError(strs, index) = "none" /\ increment
    THEN [computed EXCEPT ![index] = @ + 1]
    ELSE computed

\* msi.py:124-126: the text ref returns
RefValue(strs, cp, index) == Decode(codec(cp), strs[index])

\* msi.py:119-126: the exception ref raises, or "none": that of the index,
\* or, the count having been incremented, that of the decoding
RefFails(strs, cp, index) ==
    IF RefError(strs, index) # "none" THEN RefError(strs, index)
    ELSE DecodeError(codec(cp), strs[index])

----------------------------------------------------------------------------
(* The string pool on its own: PoolSpec builds an MSIStringData from a      *)
(* stream pair and then calls ref and __contains__ with any index.          *)

\* the bytes the string data streams of PoolSpec are cut from: 'Fo\x80IdNam'
DataBytes == <<70, 111, 128, 73, 100, 78, 97, 109>>

\* and 'F\x81oI': byte 0x81 is no character of cp1252
UndefinedBytes == <<70, 129, 111, 73>>

LE16(n) == <<n % 256, n \div 256>>

\* one pool record (u16 length, u16 provided_ref_count)
PoolRecord(size, rc) == LE16(size) \o LE16(rc)

RECURSIVE Flatten(_)
Flatten(ss) ==
    IF ss = <<>> THEN <<>>
    ELSE IF Len(ss) = 1 THEN ss[1]
    ELSE Flatten(SubSeq(ss, 1, Len(ss) \div 2))
         \o Flatten(SubSeq(ss, (Len(ss) \div 2) + 1, Len(ss)))

\* a pool stream: codepage, two reserved bytes, the records
PoolStream(cp, recs) ==
    LE16(cp) \o <<0, 0>> \o Flatten([k \in 1..Len(recs) |-> PoolRecord(recs[k].size, recs[k].rc)])

SeqsUpTo(S, n) == UNION {[1..k -> S] : k \in 0..n}

StreamPair(sd, sp) == (NameStringData :> sd) @@ (NameStringPool :> sp)

NoRet == [kind |-> "none", text |-> <<>>, exc |-> "none", bool |-> FALSE]

\* no stream_to_rows is running; i is the number of the row last yielded,
\* -1 before the first
NoGen == [data |-> <<>>, fmt |-> <<>>, row_count |-> 0, pos |-> 0, columns |-> <<>>, i |-> -1]

\* no earlier run
NoPrev == [run |-> 0, error |-> "none", tables |-> <<>>, out |-> <<>>]

\* no packbits and no interp unit exists
NoUnit == [pc |-> "none"]

UnitsIdle == packbits = NoUnit /\ interp = NoUnit

\* the locals of unpack before its first statement
UnpackIdle ==
    /\ tables = <<>>
    /\ rec = <<>>
    /\ site = "none"
    /\ gen = NoGen
    /\ tbl = 1
    /\ row = <<>>
    /\ values = <<>>
    /\ processed = <<>>
    /\ processed_table_data = <<>>
    /\ table_names_given = {}
    /\ log = <<>>
    /\ inconsistencies = 0
    /\ out = <<>>

\* pool records: lengths 0, 1, 2 and provided counts 0, 1
PoolRecords ==
    {[size |-> 0, rc |-> 0], [size |-> 1, rc |-> 1], [size |-> 2, rc |-> 0],
     [size |-> 2, rc |-> 1]}

PoolInputs ==
    \* well-formed pairs, of strings every codec decodes and of strings that
    \* cp1252 does not decode
    {StreamPair(sd, PoolStream(cp, recs)) :
        sd \in {DataBytes, UndefinedBytes},
        cp \in {437, 1252}, recs \in SeqsUpTo(PoolRecords, MaxPool)}
    \cup
    \* a pool stream that ends inside its header or inside a record, and
    \* a data stream shorter than the records say
    {StreamPair(DataBytes, <<228, 4>>),
     StreamPair(DataBytes, PoolStream(1252, <<[size |-> 1, rc |-> 1]>>) \o <<2, 0>>),
     StreamPair(<<70>>, PoolStream(437, <<[size |-> 1, rc |-> 1], [size |-> 2, rc |-> 0]>>))}

PoolInit ==
    /\ input \in PoolInputs
    /\ debug = FALSE
    /\ prev = NoPrev
    /\ UnitsIdle
    /\ streams = input
    /\ order = <<NameStringData, NameStringPool>>
    /\ pc = "new"
    /\ error = "none"
    /\ codepage = 0
    /\ strings = <<>>
    /\ provided_ref_count = <<>>
    /\ computed_ref_count = <<>>
    /\ calls = <<>>
    /\ ret = NoRet
    /\ UnpackIdle

\* Construct with the computed counts starting at the provided values
ConstructCountsProvided ==
    /\ pc = "new"
    /\ LET r == MSIStringDataInit(streams[NameStringData], streams[NameStringPool])
       IN  IF r.err = "none"
           THEN /\ pc' = "ready"
                /\ error' = "none"
                /\ codepage' = r.codepage
                /\ strings' = [k \in 1..Len(r.entries) |-> r.entries[k].string]
                /\ provided_ref_count' = [k \in 1..Len(r.entries) |-> r.entries[k].rc]
                /\ computed_ref_count' = [k \in 1..Len(r.entries) |-> r.entries[k].rc]
           ELSE /\ pc' = "failed"
                /\ error' = r.err
                /\ UNCHANGED poolvars
    /\ calls' = <<>>
    /\ ret' = NoRet
    /\ UNCHANGED <<runvars, streams, order, unpackvars>>

\* msi.py:87-100: strings = MSIStringData(string_data, string_pool)
Construct ==
    /\ pc = "new"
    /\ LET r == MSIStringDataInit(streams[NameStringData], streams[NameStringPool])
       IN  IF r.err = "none"
           THEN /\ pc' = "ready"
                /\ error' = "none"
                /\ codepage' = r.codepage
                /\ strings' = [k \in 1..Len(r.entries) |-> r.entries[k].string]
                /\ provided_ref_count' = [k \in 1..Len(r.entries) |-> r.entries[k].rc]
                /\ computed_ref_count' = [k \in 1..Len(r.entries) |-> 0]
           ELSE /\ pc' = "failed"
                /\ error' = r.err
                /\ UNCHANGED poolvars
    /\ calls' = <<>>
    /\ ret' = NoRet
    /\ UNCHANGED <<runvars, streams, order, unpackvars>>

\* msi.py:119-126: strings.ref(index, increment)
Ref(index, increment) ==
    /\ pc = "ready"
    /\ (RefError(strings, index) = "none" /\ increment) => computed_ref_count[index] < MaxRefs
    /\ computed_ref_count' = RefCounts(strings, computed_ref_count, index, increment)
    /\ ret' = IF RefFails(strings, codepage, index) = "none"
              THEN [NoRet EXCEPT !.kind = "str", !.text = RefValue(strings, codepage, index)]
              ELSE [NoRet EXCEPT !.kind = "raise", !.exc = RefFails(strings, codepage, index)]
    /\ calls' = <<[op |-> "ref", index |-> index, increment |-> increment]>>
    /\ UNCHANGED <<runvars, pc, error, streams, order, codepage, strings, provided_ref_count, unpackvars>>

\* msi.py:116-117: index in strings
ContainsCall(index) ==
    /\ pc = "ready"
    /\ ret' = [NoRet EXCEPT !.kind = "bool", !.bool = Contains(strings, index)]
    /\ calls' = <<[op |-> "contains", index |-> index, increment |-> FALSE]>>
    /\ UNCHANGED <<runvars, pc, error, streams, order, poolvars, unpackvars>>

PoolNext ==
    \/ Construct
    \/ \E index \in -1..(Len(strings) + 1), increment \in BOOLEAN : Ref(index, increment)
    \/ \E index \in -1..(Len(strings) + 1) : ContainsCall(index)

PoolSpec == PoolInit /\ [][PoolNext]_vars

----------------------------------------------------------------------------
(* MsiType and MSITableColumnInfo                                          *)

MsiLong == 260                \* 0x104
MsiShort == 1282              \* 0x502
MsiBinary == 2304             \* 0x900
MsiString == 3328             \* 0xD00
MsiStringLocalized == 3840    \* 0xF00
MsiUnknown == 0

\* msi.py:20-30 MsiType(n): the member with value n; a value of no member
\* raises ValueError, written "ValueError" here
MsiType(n) ==
    CASE n = MsiLong -> "Long"
      [] n = MsiShort -> "Short"
      [] n = MsiBinary -> "Binary"
      [] n = MsiString -> "String"
      [] n = MsiStringLocalized -> "StringLocalized"
      [] n = MsiUnknown -> "Unknown"
      [] OTHER -> "ValueError"

\* msi.py:54-56
is_integer(attributes) == BitAnd(attributes, 3840) < 2048

\* msi.py:44-52 with the low twelve bits looked up whatever is_integer says
TypeByLowBits(attributes) ==
    LET vt == MsiType(BitAnd(attributes, 4095))
    IN  IF vt = "ValueError" THEN "Unknown" ELSE vt

\* msi.py:44-52
type(attributes) ==
    LET vt == IF is_integer(attributes)
              THEN MsiType(BitAnd(attributes, 4095))
              ELSE MsiType(BitAnd(attributes, 3840))
    IN  IF vt = "ValueError" THEN "Unknown" ELSE vt

\* msi.py:75-83
struct_format(attributes) == IF type(attributes) = "Long" THEN "I" ELSE "H"

----------------------------------------------------------------------------
(* The helpers of unpack                                                   *)

\* dict.pop(name) on a present key
Pop(d, name) == [k \in DOMAIN d \ {name} |-> d[k]]

\* the key order of a dict after the keys of the set names have been removed
WithoutKeys(keys, names) == SelectSeq(keys, LAMBDA k : k \notin names)

\* the key order of a dict after d[name] = value: a new key is put last
WithKey(keys, name) ==
    IF \E k \in 1..Len(keys) : keys[k] = name THEN keys ELSE Append(keys, name)

\* struct.calcsize of one format character, and of '<' + row_format
CharSize(sc) == IF sc = "I" THEN 4 ELSE 2

RECURSIVE calcsize(_)
calcsize(row_format) ==
    IF row_format = <<>> THEN 0 ELSE CharSize(Head(row_format)) + calcsize(Tail(row_format))

\* reader.read_struct('<' + sc * count) at offset pos: count little-endian integers
ReadStruct(data, pos, sc, count) ==
    [e \in 1..count |-> IF sc = "I" THEN ReadI(data, pos + 4 * (e - 1))
                                    ELSE ReadH(data, pos + 2 * (e - 1))]

\* row_count rounded up: a started record counts as a row
RowCountCeiling(data, row_format) ==
    (Len(data) + calcsize(row_format) - 1) \div calcsize(row_format)

\* msi.py:166 row_count
RowCount(data, row_format) == Len(data) \div calcsize(row_format)

\* msi.py:164-167: the locals of stream_to_rows before the arrays are read
StartGen(data, row_format) ==
    [data |-> data, fmt |-> row_format, row_count |-> RowCount(data, row_format),
     pos |-> 0, columns |-> <<>>, i |-> -1]

\* CatalogFields with the column number and the column name index exchanged
CatalogFieldsSwapped(r) ==
    [tbl_name_id |-> r[1].lo, col_number |-> r[3].lo,
     col_name_id |-> r[2].lo, col_attributes |-> r[4].lo]

\* msi.py:175: the yielded row is unpacked into the four loop variables
CatalogFields(r) ==
    [tbl_name_id |-> r[1].lo, col_number |-> r[2].lo,
     col_name_id |-> r[3].lo, col_attributes |-> r[4].lo]

\* Row as a row-major reader would have it: the cells of a row are taken
\* to lie next to each other, the arrays being read as one run of cells
RowMajor(columns, i) ==
    LET flat == Flatten(columns)
    IN  [j \in 1..Len(columns) |-> flat[i * Len(columns) + j]]

\* msi.py:170: the row with 0-based number i, [c[i] for c in columns]
Row(columns, i) == [j \in 1..Len(columns) |-> columns[j][i + 1]]

RECURSIVE SortByNumber(_)
\* the columns in ascending order of their column number (insertion sort)
SortByNumber(cols) ==
    IF cols = <<>> THEN <<>>
    ELSE LET rest == SortByNumber(SubSeq(cols, 1, Len(cols) - 1))
             last == cols[Len(cols)]
             k    == Cardinality({j \in 1..Len(rest) : rest[j].number <= last.number})
         IN  SubSeq(rest, 1, k) \o <<last>> \o SubSeq(rest, k + 1, Len(rest))

\* msi.py:161-162 column_formats, over the columns of a table in dict order
column_formats(cols) == [j \in 1..Len(cols) |-> struct_format(cols[j].attributes)]

\* position of the entry called name in an ordered dict, 0 if there is none
RECURSIVE FindName(_, _, _)
FindName(od, name, k) ==
    IF k > Len(od) THEN 0
    ELSE IF od[k].name = name THEN k
    ELSE FindName(od, name, k + 1)

\* TablesInsert that keeps the columns of a table in the order of their numbers
TablesInsertByNumber(tabs, tbl_name, col_name, number, attributes) ==
    LET info == [name |-> col_name, number |-> number, attributes |-> attributes]
        t0   == FindName(tabs, tbl_name, 1)
        tabs1 == IF t0 = 0 THEN Append(tabs, [name |-> tbl_name, cols |-> <<>>]) ELSE tabs
        t    == IF t0 = 0 THEN Len(tabs1) ELSE t0
        c    == FindName(tabs1[t].cols, col_name, 1)
    IN  IF c = 0
        THEN [tabs1 EXCEPT ![t].cols = SortByNumber(Append(@, info))]
        ELSE [tabs1 EXCEPT ![t].cols = SortByNumber([@ EXCEPT ![c] = info])]

\* msi.py:178 tables[tbl_name][col_name] = MSITableColumnInfo(number, attributes):
\* a new table is put last (defaultdict of OrderedDict), a new column is put
\* last in its table, a column seen before keeps its place and gets the new info
TablesInsert(tabs, tbl_name, col_name, number, attributes) ==
    LET info == [name |-> col_name, number |-> number, attributes |-> attributes]
        t0   == FindName(tabs, tbl_name, 1)
        tabs1 == IF t0 = 0 THEN Append(tabs, [name |-> tbl_name, cols |-> <<>>]) ELSE tabs
        t    == IF t0 = 0 THEN Len(tabs1) ELSE t0
        c    == FindName(tabs1[t].cols, col_name, 1)
    IN  IF c = 0
        THEN [tabs1 EXCEPT ![t].cols = Append(@, info)]
        ELSE [tabs1 EXCEPT ![t].cols[c] = info]

RECURSIVE RefAll(_, _, _, _)
\* strings.ref(index) for each index of indices in turn, stopping at the first
\* that raises: the exception, the counts, the texts returned, the calls made
RefAll(strs, cp, computed, indices) ==
    IF indices = <<>>
    THEN [err |-> "none", computed |-> computed, texts |-> <<>>, calls |-> <<>>]
    ELSE LET index == Head(indices)
             call  == [op |-> "ref", index |-> index, increment |-> TRUE]
         IN  IF RefFails(strs, cp, index) # "none"
             THEN [err |-> RefFails(strs, cp, index),
                   computed |-> RefCounts(strs, computed, index, TRUE),
                   texts |-> <<>>, calls |-> <<call>>]
             ELSE LET rest == RefAll(strs, cp, RefCounts(strs, computed, index, TRUE),
                                     Tail(indices))
                  IN  [err |-> rest.err, computed |-> rest.computed,
                       texts |-> <<RefValue(strs, cp, index)>> \o rest.texts,
                       calls |-> <<call>> \o rest.calls]

\* chunks.unpack(data, 2, False): the whole little-endian 16-bit words of data
ChunksUnpack(data) == [k \in 1..(Len(data) \div 2) |-> U16At(data, 2 * (k - 1))]

IntVal(n) == [tag |-> "int", int |-> n, str |-> <<>>]
StrVal(t) == [tag |-> "str", int |-> 0, str |-> t]

\* LongValue without the reserved zero: the bias is taken off every stored value
LongValueAlwaysBiased(raw) == (raw.hi - 32768) * 65536 + raw.lo

\* msi.py:200-202: a Long cell read with 'I'
LongValue(raw) ==
    IF raw.lo # 0 \/ raw.hi # 0 THEN (raw.hi - 32768) * 65536 + raw.lo ELSE 0

\* msi.py:203-205: a Short cell read with 'H'
ShortValue(raw) == IF raw.lo # 0 THEN raw.lo - 32768 ELSE 0

\* msi.py:206: a cell that is neither Long nor Short makes the call
\* strings.ref(value) exactly when value is in strings
CellRefs(attributes, raw, strs) ==
    /\ type(attributes) \notin {"Long", "Short"}
    /\ Contains(strs, raw.lo)

\* CellValue without the test of msi.py:208: every cell that is no pool index
\* becomes the empty string
CellValueEmptyFallback(attributes, raw, strs, cp) ==
    IF type(attributes) = "Long" THEN IntVal(LongValue(raw))
    ELSE IF type(attributes) = "Short" THEN IntVal(ShortValue(raw))
    ELSE IF Contains(strs, raw.lo) THEN StrVal(RefValue(strs, cp, raw.lo))
    ELSE StrVal(<<>>)

\* msi.py:199-210: the value appended for the raw cell of a column
CellValue(attributes, raw, strs, cp) ==
    IF type(attributes) = "Long" THEN IntVal(LongValue(raw))
    ELSE IF type(attributes) = "Short" THEN IntVal(ShortValue(raw))
    ELSE IF Contains(strs, raw.lo) THEN StrVal(RefValue(strs, cp, raw.lo))
    ELSE IF ~is_integer(attributes) THEN StrVal(<<>>)
    ELSE IntVal(raw.lo)

\* msi.py:212 entry = dict(zip(table, values)), in key order
Entry(cols, vals) == [j \in 1..Len(cols) |-> [key |-> cols[j].name, value |-> vals[j]]]

----------------------------------------------------------------------------
(* Texts: what python's str(), bytes.hex(), str.encode(), str.lower(),     *)
(* re and json.dumps do to the values of unpack.                           *)

RECURSIVE NatText(_)
\* the decimal digits of a natural number
NatText(n) == IF n < 10 THEN <<48 + n>> ELSE NatText(n \div 10) \o <<48 + (n % 10)>>

\* str(n) of an integer, as F'{n}' and json.dumps write it
IntText(n) == IF n < 0 THEN <<45>> \o NatText(0 - n) ELSE NatText(n)

\* one digit of bytes.hex(): lowercase
HexDigit(d) == IF d < 10 THEN 48 + d ELSE 87 + d

\* bytes.hex()
BytesHex(bytes) ==
    Flatten([k \in 1..Len(bytes) |-> <<HexDigit(bytes[k] \div 16), HexDigit(bytes[k] % 16)>>])

\* the four hex digits of a code point in a \uXXXX escape of json.dumps
Hex4(c) ==
    <<HexDigit(c \div 4096), HexDigit((c \div 256) % 16), HexDigit((c \div 16) % 16),
      HexDigit(c % 16)>>

\* str.encode('utf8') of one code point of the basic plane
Utf8Char(c) ==
    IF c < 128 THEN <<c>>
    ELSE IF c < 2048 THEN <<192 + (c \div 64), 128 + (c % 64)>>
    ELSE <<224 + (c \div 4096), 128 + ((c \div 64) % 64), 128 + (c % 64)>>

\* text.encode(self.codec): the codec of a unit is utf8
Encode(text) == Flatten([k \in 1..Len(text) |-> Utf8Char(text[k])])

\* str.lower() on a text of ASCII characters
Lower(text) ==
    [k \in 1..Len(text) |-> IF text[k] >= 65 /\ text[k] <= 90 THEN text[k] + 32 ELSE text[k]]

RECURSIVE TextLess(_, _)
\* a < b for two python strings: by code point, a proper prefix first
TextLess(a, b) ==
    IF b = <<>> THEN FALSE
    ELSE IF a = <<>> THEN TRUE
    ELSE IF Head(a) # Head(b) THEN Head(a) < Head(b)
    ELSE TextLess(Tail(a), Tail(b))

RECURSIVE Sorted(_)
\* sorted(paths) for a set of distinct texts
Sorted(paths) ==
    IF paths = {} THEN <<>>
    ELSE LET least == CHOOSE p \in paths : \A q \in paths : p = q \/ TextLess(p, q)
         IN  <<least>> \o Sorted(paths \ {least})

\* msi.py:242-243: the end of the last match of [\x01-\x05] in data, 0 if
\* there is none
MetaOffset(data) ==
    LET ends == {k \in 1..Len(data) : data[k] >= 1 /\ data[k] <= 5}
    IN  IF ends = {} THEN 0 ELSE CHOOSE k \in ends : \A j \in ends : j <= k

RECURSIVE Unescape(_)
\* msi.py:246 re.sub(r'\[\\(.)\]', r'\1', text): from left to right, each
\* '[', '\', c, ']' with c other than a line feed is replaced by c
Unescape(text) ==
    IF text = <<>> THEN <<>>
    ELSE IF /\ Len(text) >= 4
            /\ text[1] = 91 /\ text[2] = 92 /\ text[3] # 10 /\ text[4] = 93
         THEN <<text[3]>> \o Unescape(SubSeq(text, 5, Len(text)))
         ELSE <<text[1]>> \o Unescape(Tail(text))

\* json.dumps of one character of a string (ensure_ascii)
JsonChar(c) ==
    CASE c = 34 -> <<92, 34>>
      [] c = 92 -> <<92, 92>>
      [] c = 10 -> <<92, 110>>
      [] c = 13 -> <<92, 114>>
      [] c = 9  -> <<92, 116>>
      [] c = 12 -> <<92, 102>>
      [] c = 8  -> <<92, 98>>
      [] OTHER  -> IF c >= 32 /\ c <= 126 THEN <<c>> ELSE <<92, 117>> \o Hex4(c)

\* json.dumps of a string
JsonStr(text) == <<34>> \o Flatten([k \in 1..Len(text) |-> JsonChar(text[k])]) \o <<34>>

\* json.dumps of a cell value
JsonValue(v) == IF v.tag = "int" THEN IntText(v.int) ELSE JsonStr(v.str)

\* n spaces
Spaces(n) == [k \in 1..n |-> 32]

RECURSIVE Join(_, _)
\* sep.join(parts)
Join(sep, parts) ==
    IF parts = <<>> THEN <<>>
    ELSE IF Len(parts) = 1 THEN parts[1]
    ELSE parts[1] \o sep \o Join(sep, Tail(parts))

\* json.dumps(..., indent=4) of a dict or list at nesting depth: the items
\* on lines of their own between the brackets, or the bare brackets if empty
JsonBlock(open, close, items, depth) ==
    IF items = <<>> THEN <<open, close>>
    ELSE <<open, 10>>
         \o Join(<<44, 10>>, [k \in 1..Len(items) |-> Spaces(4 * (depth + 1)) \o items[k]])
         \o <<10>> \o Spaces(4 * depth) \o <<close>>

\* json.dumps of one record of a table
JsonRecord(entry) ==
    JsonBlock(123, 125,
              [j \in 1..Len(entry) |->
                  JsonStr(entry[j].key) \o <<58, 32>> \o JsonValue(entry[j].value)], 2)

\* JsonDumps with the tables in the reverse of their order
JsonDumpsReversed(ptd) ==
    JsonBlock(123, 125,
              [t \in 1..Len(ptd) |->
                  JsonStr(ptd[Len(ptd) + 1 - t].name) \o <<58, 32>>
                  \o JsonBlock(91, 93, [r \in 1..Len(ptd[Len(ptd) + 1 - t].rows) |->
                                           JsonRecord(ptd[Len(ptd) + 1 - t].rows[r])], 1)], 0)

\* msi.py:279 json.dumps(processed_table_data, indent=4)
JsonDumps(ptd) ==
    JsonBlock(123, 125,
              [t \in 1..Len(ptd) |->
                  JsonStr(ptd[t].name) \o <<58, 32>>
                  \o JsonBlock(91, 93, [r \in 1..Len(ptd[t].rows) |->
                                           JsonRecord(ptd[t].rows[r])], 1)], 0)

\* msi.py:135-153 _CUSTOM_ACTION_TYPES
CUSTOM_ACTION_TYPES ==
    \* 0x01: DLL file stored in a Binary table stream.
    (1 :> <<68, 76, 76, 32, 102, 105, 108, 101, 32, 115, 116, 111, 114, 101, 100, 32, 105, 110, 32, 97, 32, 66, 105, 110, 97, 114, 121, 32, 116, 97, 98, 108, 101, 32, 115, 116, 114, 101, 97, 109, 46>>)
    \* 0x02: EXE file stored in a Binary table stream.
    @@ (2 :> <<69, 88, 69, 32, 102, 105, 108, 101, 32, 115, 116, 111, 114, 101, 100, 32, 105, 110, 32, 97, 32, 66, 105, 110, 97, 114, 121, 32, 116, 97, 98, 108, 101, 32, 115, 116, 114, 101, 97, 109, 46>>)
    \* 0x05: JScript file stored in a Binary table stream.
    @@ (5 :> <<74, 83, 99, 114, 105, 112, 116, 32, 102, 105, 108, 101, 32, 115, 116, 111, 114, 101, 100, 32, 105, 110, 32, 97, 32, 66, 105, 110, 97, 114, 121, 32, 116, 97, 98, 108, 101, 32, 115, 116, 114, 101, 97, 109, 46>>)
    \* 0x06: VBScript file stored in a Binary table stream.
    @@ (6 :> <<86, 66, 83, 99, 114, 105, 112, 116, 32, 102, 105, 108, 101, 32, 115, 116, 111, 114, 101, 100, 32, 105, 110, 32, 97, 32, 66, 105, 110, 97, 114, 121, 32, 116, 97, 98, 108, 101, 32, 115, 116, 114, 101, 97, 109, 46>>)
    \* 0x11: DLL file that is installed with a product.
    @@ (17 :> <<68, 76, 76, 32, 102, 105, 108, 101, 32, 116, 104, 97, 116, 32, 105, 115, 32, 105, 110, 115, 116, 97, 108, 108, 101, 100, 32, 119, 105, 116, 104, 32, 97, 32, 112, 114, 111, 100, 117, 99, 116, 46>>)
    \* 0x12: EXE file that is installed with a product.
    @@ (18 :> <<69, 88, 69, 32, 102, 105, 108, 101, 32, 116, 104, 97, 116, 32, 105, 115, 32, 105, 110, 115, 116, 97, 108, 108, 101, 100, 32, 119, 105, 116, 104, 32, 97, 32, 112, 114, 111, 100, 117, 99, 116, 46>>)
    \* 0x13: Displays a specified error message and returns failure, terminating the installation.
    @@ (19 :> <<68, 105, 115, 112, 108, 97, 121, 115, 32, 97, 32, 115, 112, 101, 99, 105, 102, 105, 101, 100, 32, 101, 114, 114, 111, 114, 32, 109, 101, 115, 115, 97, 103, 101, 32, 97, 110, 100, 32, 114, 101, 116, 117, 114, 110, 115, 32, 102, 97, 105, 108, 117, 114, 101, 44, 32, 116, 101, 114, 109, 105, 110, 97, 116, 105, 110, 103, 32, 116, 104, 101, 32, 105, 110, 115, 116, 97, 108, 108, 97, 116, 105, 111, 110, 46>>)
    \* 0x15: JScript file that is installed with a product.
    @@ (21 :> <<74, 83, 99, 114, 105, 112, 116, 32, 102, 105, 108, 101, 32, 116, 104, 97, 116, 32, 105, 115, 32, 105, 110, 115, 116, 97, 108, 108, 101, 100, 32, 119, 105, 116, 104, 32, 97, 32, 112, 114, 111, 100, 117, 99, 116, 46>>)
    \* 0x16: VBScript file that is installed with a product.
    @@ (22 :> <<86, 66, 83, 99, 114, 105, 112, 116, 32, 102, 105, 108, 101, 32, 116, 104, 97, 116, 32, 105, 115, 32, 105, 110, 115, 116, 97, 108, 108, 101, 100, 32, 119, 105, 116, 104, 32, 97, 32, 112, 114, 111, 100, 117, 99, 116, 46>>)
    \* 0x22: EXE file having a path referencing a directory.
    @@ (34 :> <<69, 88, 69, 32, 102, 105, 108, 101, 32, 104, 97, 118, 105, 110, 103, 32, 97, 32, 112, 97, 116, 104, 32, 114, 101, 102, 101, 114, 101, 110, 99, 105, 110, 103, 32, 97, 32, 100, 105, 114, 101, 99, 116, 111, 114, 121, 46>>)
    \* 0x23: Directory set with formatted text.
    @@ (35 :> <<68, 105, 114, 101, 99, 116, 111, 114, 121, 32, 115, 101, 116, 32, 119, 105, 116, 104, 32, 102, 111, 114, 109, 97, 116, 116, 101, 100, 32, 116, 101, 120, 116, 46>>)
    \* 0x25: JScript text stored in this sequence table.
    @@ (37 :> <<74, 83, 99, 114, 105, 112, 116, 32, 116, 101, 120, 116, 32, 115, 116, 111, 114, 101, 100, 32, 105, 110, 32, 116, 104, 105, 115, 32, 115, 101, 113, 117, 101, 110, 99, 101, 32, 116, 97, 98, 108, 101, 46>>)
    \* 0x26: VBScript text stored in this sequence table.
    @@ (38 :> <<86, 66, 83, 99, 114, 105, 112, 116, 32, 116, 101, 120, 116, 32, 115, 116, 111, 114, 101, 100, 32, 105, 110, 32, 116, 104, 105, 115, 32, 115, 101, 113, 117, 101, 110, 99, 101, 32, 116, 97, 98, 108, 101, 46>>)
    \* 0x32: EXE file having a path specified by a property value.
    @@ (50 :> <<69, 88, 69, 32, 102, 105, 108, 101, 32, 104, 97, 118, 105, 110, 103, 32, 97, 32, 112, 97, 116, 104, 32, 115, 112, 101, 99, 105, 102, 105, 101, 100, 32, 98, 121, 32, 97, 32, 112, 114, 111, 112, 101, 114, 116, 121, 32, 118, 97, 108, 117, 101, 46>>)
    \* 0x33: Property set with formatted text.
    @@ (51 :> <<80, 114, 111, 112, 101, 114, 116, 121, 32, 115, 101, 116, 32, 119, 105, 116, 104, 32, 102, 111, 114, 109, 97, 116, 116, 101, 100, 32, 116, 101, 120, 116, 46>>)
    \* 0x35: JScript text specified by a property value.
    @@ (53 :> <<74, 83, 99, 114, 105, 112, 116, 32, 116, 101, 120, 116, 32, 115, 112, 101, 99, 105, 102, 105, 101, 100, 32, 98, 121, 32, 97, 32, 112, 114, 111, 112, 101, 114, 116, 121, 32, 118, 97, 108, 117, 101, 46>>)
    \* 0x36: VBScript text specified by a property value.
    @@ (54 :> <<86, 66, 83, 99, 114, 105, 112, 116, 32, 116, 101, 120, 116, 32, 115, 112, 101, 99, 105, 102, 105, 101, 100, 32, 98, 121, 32, 97, 32, 112, 114, 111, 112, 101, 114, 116, 121, 32, 118, 97, 108, 117, 101, 46>>)

----------------------------------------------------------------------------
(* The tables with derived fields and artifacts, msi.py:212-250             *)

NameMsiFileHash == <<33, 77, 115, 105, 70, 105, 108, 101, 72, 97, 115, 104>>  \* '!MsiFileHash'
NameCustomAction == <<33, 67, 117, 115, 116, 111, 109, 65, 99, 116, 105, 111, 110>>  \* '!CustomAction'
KeyHash == <<72, 97, 115, 104>>  \* 'Hash'
KeyComment == <<67, 111, 109, 109, 101, 110, 116>>  \* 'Comment'
KeyTarget == <<84, 97, 114, 103, 101, 116>>  \* 'Target'
KeyAction == <<65, 99, 116, 105, 111, 110>>  \* 'Action'
ActionPrefix == <<65, 99, 116, 105, 111, 110, 47>>  \* 'Action/'
ExtensionJs == <<46, 106, 115>>  \* '.js'
ExtensionVbs == <<46, 118, 98, 115>>  \* '.vbs'

\* position of key in a record (a dict in key order), 0 if it has none
EntryIndex(entry, key) ==
    IF \E j \in 1..Len(entry) : entry[j].key = key
    THEN CHOOSE j \in 1..Len(entry) : entry[j].key = key
    ELSE 0

\* entry[key] = value: a key the record has keeps its place, a new one is put last
EntrySet(entry, key, value) ==
    IF EntryIndex(entry, key) = 0
    THEN Append(entry, [key |-> key, value |-> value])
    ELSE [entry EXCEPT ![EntryIndex(entry, key)].value = value]

\* value ^ 0x80000000 on a stored integer below 2^32
XorBias(raw) == [lo |-> raw.lo, hi |-> (raw.hi + 32768) % 65536]

\* the Hash field without the XOR
FileHashUnbiased(r) ==
    BytesHex(Flatten([k \in 1..4 |-> LE16(r[k + 2].lo) \o LE16(r[k + 2].hi)]))

\* msi.py:216-222 struct.pack('<IIII', row[2] ^ 0x80000000, ..., row[5] ^ 0x80000000).hex()
FileHash(r) ==
    BytesHex(Flatten([k \in 1..4 |->
        LE16(XorBias(r[k + 2]).lo) \o LE16(XorBias(r[k + 2]).hi)]))

\* the code under the mask 0xFF
ActionCodeByte(r) == BitAnd(r[2].lo, 255)

\* msi.py:225 code = row[1] & 0x3F
ActionCode(r) == BitAnd(r[2].lo, 63)

\* F'{value}' of a cell value
ValueText(v) == IF v.tag = "int" THEN IntText(v.int) ELSE v.str

NoArtifact == [err |-> "none", emit |-> FALSE, path |-> <<>>, data |-> <<>>]

\* Artifact that carves the target of a script as it does for code 0x33
ArtifactCarved(cols, entry, code) ==
    IF code \notin {37, 38, 51} THEN NoArtifact
    ELSE IF FindName(cols, KeyTarget, 1) = 0 THEN [NoArtifact EXCEPT !.err = "KeyError"]
    ELSE IF is_integer(cols[FindName(cols, KeyTarget, 1)].attributes) THEN NoArtifact
    ELSE IF EntryIndex(entry, KeyAction) = 0 THEN [NoArtifact EXCEPT !.err = "KeyError"]
    ELSE LET path == ActionPrefix \o ValueText(entry[EntryIndex(entry, KeyAction)].value)
             data == entry[EntryIndex(entry, KeyTarget)].value.str
             ext  == IF code = 51 THEN <<>> ELSE IF code = 37 THEN ExtensionJs ELSE ExtensionVbs
         IN  IF MetaOffset(data) = 0 /\ code = 51 THEN NoArtifact
             ELSE [NoArtifact EXCEPT
                      !.emit = TRUE, !.path = path \o ext,
                      !.data = Encode(Unescape(SubSeq(data, MetaOffset(data) + 1,
                                                      Len(data))))]

\* msi.py:233-250: the artifact of a CustomAction row, if it has one, or the
\* exception raised on the way
Artifact(cols, entry, code) ==
    IF code \notin {37, 38, 51} THEN NoArtifact
    ELSE IF FindName(cols, KeyTarget, 1) = 0 THEN [NoArtifact EXCEPT !.err = "KeyError"]
    ELSE IF is_integer(cols[FindName(cols, KeyTarget, 1)].attributes) THEN NoArtifact
    ELSE IF EntryIndex(entry, KeyAction) = 0 THEN [NoArtifact EXCEPT !.err = "KeyError"]
    ELSE LET path == ActionPrefix \o ValueText(entry[EntryIndex(entry, KeyAction)].value)
             data == entry[EntryIndex(entry, KeyTarget)].value.str
         IN  IF code = 51
             THEN IF MetaOffset(data) = 0 THEN NoArtifact
                  ELSE [NoArtifact EXCEPT
                           !.emit = TRUE, !.path = path,
                           !.data = Encode(Unescape(SubSeq(data, MetaOffset(data) + 1,
                                                           Len(data))))]
             ELSE [NoArtifact EXCEPT
                      !.emit = TRUE,
                      !.path = path \o (IF code = 37 THEN ExtensionJs ELSE ExtensionVbs),
                      !.data = Encode(data)]

\* msi.py:212-250 for one row: the record, whether it was appended to
\* processed before an exception, the artifact, the exception
RowResult(stream_name, cols, r, vals) ==
    LET entry0 == Entry(cols, vals)
        none   == [err |-> "none", appended |-> FALSE, entry |-> entry0, artifact |-> NoArtifact]
    IN  IF stream_name = NameMsiFileHash
        THEN IF Len(r) < 6 THEN [none EXCEPT !.err = "IndexError"]
             ELSE [none EXCEPT !.appended = TRUE,
                               !.entry = EntrySet(entry0, KeyHash, StrVal(FileHash(r)))]
        ELSE IF stream_name = NameCustomAction
        THEN IF Len(r) < 2 THEN [none EXCEPT !.err = "IndexError"]
             ELSE LET code   == ActionCode(r)
                      entry1 == IF code \in DOMAIN CUSTOM_ACTION_TYPES
                                THEN EntrySet(entry0, KeyComment, StrVal(CUSTOM_ACTION_TYPES[code]))
                                ELSE entry0
                      a      == Artifact(cols, entry1, code)
                  IN  [err |-> a.err, appended |-> TRUE, entry |-> entry1, artifact |-> a]
        ELSE [none EXCEPT !.appended = TRUE]

----------------------------------------------------------------------------
(* The end of unpack, msi.py:254-284                                        *)

\* msi.py:254-259
IgnoredStreams ==
    {<<91, 53, 93, 83, 117, 109, 109, 97, 114, 121, 73, 110, 102, 111, 114, 109, 97, 116, 105, 111, 110>>,   \* '[5]SummaryInformation'
     <<91, 53, 93, 68, 111, 99, 117, 109, 101, 110, 116, 83, 117, 109, 109, 97, 114, 121, 73, 110, 102, 111, 114, 109, 97, 116, 105, 111, 110>>,   \* '[5]DocumentSummaryInformation'
     <<91, 53, 93, 68, 105, 103, 105, 116, 97, 108, 83, 105, 103, 110, 97, 116, 117, 114, 101>>,   \* '[5]DigitalSignature'
     <<91, 53, 93, 77, 115, 105, 68, 105, 103, 105, 116, 97, 108, 83, 105, 103, 110, 97, 116, 117, 114, 101, 69, 120>>}   \* '[5]MsiDigitalSignatureEx'

NameJson == <<77, 115, 105, 84, 97, 98, 108, 101, 115, 46, 106, 115, 111, 110>>  \* 'MsiTables.json'
Binary == <<98, 105, 110, 97, 114, 121>>  \* 'binary'

\* fix_msi_path with the prefix of a fixed path put in lowercase
FixMsiPathLowered(path) ==
    LET dots == {k \in 1..Len(path) : path[k] = 46}
        dot  == IF dots = {} THEN 0 ELSE CHOOSE k \in dots : \A j \in dots : k <= j
    IN  IF dot # 0 /\ Lower(SubSeq(path, 1, dot - 1)) = Binary
        THEN Binary \o <<47>> \o SubSeq(path, dot + 1, Len(path))
        ELSE path

\* msi.py:271-275 fix_msi_path: path.partition('.') at the first dot; the
\* paths of the model are ASCII texts
fix_msi_path(path) ==
    LET dots == {k \in 1..Len(path) : path[k] = 46}
        dot  == IF dots = {} THEN 0 ELSE CHOOSE k \in dots : \A j \in dots : k <= j
    IN  IF dot # 0 /\ Lower(SubSeq(path, 1, dot - 1)) = Binary
        THEN SubSeq(path, 1, dot - 1) \o <<47>> \o SubSeq(path, dot + 1, Len(path))
        ELSE path

RECURSIVE FixedKeys(_)
\* msi.py:277: the key order of the dict comprehension, a path that comes up
\* again keeping its first place
FixedKeys(keys) ==
    IF keys = <<>> THEN <<>>
    ELSE WithKey(FixedKeys(SubSeq(keys, 1, Len(keys) - 1)), fix_msi_path(keys[Len(keys)]))

\* msi.py:277 {fix_msi_path(path): item for path, item in streams.items()}:
\* of two streams with one fixed path the later one of the dict stays
FixedStreams(d, keys) ==
    [p \in {fix_msi_path(k) : k \in DOMAIN d} |->
        d[keys[CHOOSE i \in 1..Len(keys) :
                   /\ fix_msi_path(keys[i]) = p
                   /\ \A j \in 1..Len(keys) : fix_msi_path(keys[j]) = p => j <= i]]]

RECURSIVE Ascending(_)
\* the numbers of a set in ascending order
Ascending(S) ==
    IF S = {} THEN <<>>
    ELSE LET least == CHOOSE x \in S : \A y \in S : x <= y
         IN  <<least>> \o Ascending(S \ {least})

\* msi.py:263-266: the entries with c != p, in the order of the loop
Mismatches(computed, provided) ==
    Ascending({k \in 1..Len(computed) : computed[k] # provided[k]})

\* msi.py:266: the arguments of log_debug
DebugMessage(c, p, text) ==
    [kind |-> "string reference count",
     name |-> <<99, 111, 109, 112, 117, 116, 101, 100, 61>> \o IntText(c) \o <<32, 112, 114, 111, 118, 105, 100, 101, 100, 61>> \o IntText(p)
              \o <<58, 32>> \o text]

\* msi.py:269: the argument of log_info
InfoMessage(n) == [kind |-> "incorrect string reference counts", name |-> IntText(n)]

\* the log after the calls with the messages msgs
Logged(lg, msgs) ==
    [m \in DOMAIN lg \cup {msgs[j] : j \in 1..Len(msgs)} |->
        (IF m \in DOMAIN lg THEN lg[m] ELSE 0)
        + Cardinality({j \in 1..Len(msgs) : msgs[j] = m})]

----------------------------------------------------------------------------
(* The inputs of unpack: stream mappings, as the container reader hands    *)
(* them over (msi.py:156).                                                  *)

Foo == <<70, 111, 111>>
Bar == <<66, 97, 114>>
Id == <<73, 100>>
Name == <<78, 97, 109, 101>>
alpha == <<97, 108, 112, 104, 97>>
beta == <<98, 101, 116, 97>>
Euro == <<128>>

\* the strings of the pool of the unpack inputs, entries 1..7
MainStrings == <<Foo, Id, Name, alpha, beta, Bar, Euro>>

MainStringData == Flatten(MainStrings)

MainStringPool(cp) ==
    PoolStream(cp, [k \in 1..Len(MainStrings) |-> [size |-> Len(MainStrings[k]), rc |-> 1]])

\* column attributes of the four kinds of cell: Long 0x0104, Short with the
\* key flag 0x2502, String of length 255 0x0DFF, and 0x0300, an integer
\* column that is neither Long nor Short
AttrSamples == {260, 9474, 3583, 768}

\* raw cell values for a Long column (halves), a Short column and the others
LongSamples ==
    <<[lo |-> 0, hi |-> 0], [lo |-> 1, hi |-> 0], [lo |-> 0, hi |-> 32768],
      [lo |-> 1, hi |-> 32768], [lo |-> 65535, hi |-> 65535], [lo |-> 65535, hi |-> 32767]>>
ShortSamples == <<0, 1, 32768, 32769, 65535, 32767>>
StringSamples == <<0, 8, 4, 4, 7, 65535>>

RawSample(attributes, s) ==
    LET k == (s % 6) + 1
    IN  IF type(attributes) = "Long" THEN LongSamples[k]
        ELSE IF type(attributes) = "Short" THEN [lo |-> ShortSamples[k], hi |-> 0]
        ELSE [lo |-> StringSamples[k], hi |-> 0]

\* the bytes struct packs for a raw value under format character sc
PackRaw(sc, raw) == IF sc = "I" THEN LE16(raw.lo) \o LE16(raw.hi) ELSE LE16(raw.lo)

Filler(n) == [k \in 1..n |-> 255]

\* a table stream in the layout of the file format: for each column in turn
\* the cells of all n rows; row i of column j holds sample s0 + i + j; then
\* extra bytes
TableData(attrs, n, s0, extra) ==
    Flatten([j \in 1..Len(attrs) |->
        Flatten([i \in 1..n |->
            PackRaw(struct_format(attrs[j]), RawSample(attrs[j], s0 + i + j))])])
    \o Filler(extra)

\* a _Columns stream in the same layout: the four arrays of the records
CatalogData(recs, extra) ==
    Flatten([r \in 1..Len(recs) |-> LE16(recs[r].tbl)])
    \o Flatten([r \in 1..Len(recs) |-> LE16(recs[r].number)])
    \o Flatten([r \in 1..Len(recs) |-> LE16(recs[r].name)])
    \o Flatten([r \in 1..Len(recs) |-> LE16(recs[r].attributes)])
    \o Filler(extra)

\* a _Columns stream that holds its records one after the other instead
FlatCatalogData(recs) ==
    Flatten([r \in 1..Len(recs) |->
        LE16(recs[r].tbl) \o LE16(recs[r].number) \o LE16(recs[r].name)
        \o LE16(recs[r].attributes)])

\* a _Tables stream
TablesData(indices, extra) ==
    Flatten([k \in 1..Len(indices) |-> LE16(indices[k])]) \o Filler(extra)

Bang(name) == <<33>> \o name

CatRec(t, n, c, a) == [tbl |-> t, number |-> n, name |-> c, attributes |-> a]

Streams(cp, catalog, names, foo, bar) ==
    (NameStringData :> MainStringData) @@ (NameStringPool :> MainStringPool(cp))
    @@ (NameColumns :> catalog) @@ (NameTables :> names)
    @@ (Bang(Foo) :> foo) @@ (Bang(Bar) :> bar)

\* the columns of the varied table get the pool entries 2, 3, 4, 5 as names
RowSchema(attrs) == [j \in 1..Len(attrs) |-> CatRec(1, j, j + 1, attrs[j])]

\* table Foo with every schema of up to MaxCols columns and up to MaxRows rows
RowInputs ==
    {Streams(1252, CatalogData(RowSchema(attrs), 0), TablesData(<<1>>, 0),
             TableData(attrs, n, s0, extra), <<>>) :
        attrs \in UNION {[1..k -> AttrSamples] : k \in 1..MaxCols},
        n \in 0..MaxRows, s0 \in 0..5, extra \in 0..MaxExtra}

\* catalog records: columns of Foo and Bar out of name and number order, a
\* column name given twice, and table and column name indices outside the pool
CatRecords ==
    {CatRec(1, 2, 3, 3583), CatRec(1, 1, 2, 260), CatRec(1, 3, 3, 9474),
     CatRec(6, 1, 2, 3583), CatRec(0, 1, 2, 260), CatRec(1, 1, 8, 260)}

FixedData == <<1, 0, 0, 128, 4, 0, 5, 0, 7, 0, 2, 0, 255>>

CatalogInputs ==
    {Streams(1252, CatalogData(recs, extra), TablesData(<<1, 6>>, 0), FixedData, FixedData) :
        recs \in SeqsUpTo(CatRecords, MaxCat), extra \in {0, 3}}
    \cup
    {Streams(1252, FlatCatalogData(recs), TablesData(<<1, 6>>, 0), FixedData, FixedData) :
        recs \in SeqsUpTo(CatRecords, 2)}

\* _Tables streams
NameInputs ==
    {Streams(cp, CatalogData(<<CatRec(1, 1, 2, 260), CatRec(1, 2, 3, 3583)>>, 0),
             TablesData(indices, extra), FixedData, <<>>) :
        cp \in {437, 1252},
        indices \in {<<>>, <<1>>, <<6>>, <<1, 6>>, <<6, 1, 6>>, <<0>>, <<1, 8>>, <<4, 7>>},
        extra \in {0, 1}}

BaseInput ==
    Streams(1252, CatalogData(<<CatRec(1, 1, 2, 260), CatRec(1, 2, 3, 3583),
                                CatRec(6, 1, 2, 3583)>>, 0),
            TablesData(<<1, 6>>, 0), FixedData, FixedData)

\* a stream is absent, or the pool streams are cut short
MissingInputs ==
    {Pop(BaseInput, name) : name \in DOMAIN BaseInput}
    \cup {[BaseInput EXCEPT ![NameStringPool] = SubSeq(@, 1, n)] : n \in {2, 6, 10}}
    \cup {[BaseInput EXCEPT ![NameStringData] = SubSeq(@, 1, n)] : n \in {0, 4}}

\* the pool of the inputs with an MsiFileHash or a CustomAction table (bytes;
\* the codepage is 1252):
\*    1 'MsiFileHash'
\*    2 'CustomAction'
\*    3 'Action'
\*    4 'Type'
\*    5 'Source'
\*    6 'Target'
\*    7 'File_'
\*    8 'Options'
\*    9 'H1'
\*   10 'H2'
\*   11 'H3'
\*   12 'H4'
\*   13 'a'
\*   14 'b'
\*   15 'x=1'
\*   16 '\x01\x02Hello[\1]'
\*   17 'Hi'
\*   18 '\x03[\\n]\x80'
ExtraStrings ==
    <<<<77, 115, 105, 70, 105, 108, 101, 72, 97, 115, 104>>,
      <<67, 117, 115, 116, 111, 109, 65, 99, 116, 105, 111, 110>>,
      <<65, 99, 116, 105, 111, 110>>,
      <<84, 121, 112, 101>>,
      <<83, 111, 117, 114, 99, 101>>,
      <<84, 97, 114, 103, 101, 116>>,
      <<70, 105, 108, 101, 95>>,
      <<79, 112, 116, 105, 111, 110, 115>>,
      <<72, 49>>,
      <<72, 50>>,
      <<72, 51>>,
      <<72, 52>>,
      <<97>>,
      <<98>>,
      <<120, 61, 49>>,
      <<1, 2, 72, 101, 108, 108, 111, 91, 92, 49, 93>>,
      <<72, 105>>,
      <<3, 91, 92, 10, 93, 128>>>>

ExtraStringPool ==
    PoolStream(1252, [k \in 1..Len(ExtraStrings) |-> [size |-> Len(ExtraStrings[k]), rc |-> 1]])

\* streams that are no table: one that is dropped and one whose path is fixed
ExtraStreams ==
    (<<91, 53, 93, 83, 117, 109, 109, 97, 114, 121, 73, 110, 102, 111, 114, 109, 97, 116, 105, 111, 110>> :> <<1>>)   \* '[5]SummaryInformation'
    @@ (<<66, 105, 110, 97, 114, 121, 46, 120>> :> <<2>>)   \* 'Binary.x'

\* the streams of an input with the tables of the catalog recs, the table
\* list names and the table streams tabs
ExtraInput(recs, names, tabs) ==
    (NameStringData :> Flatten(ExtraStrings)) @@ (NameStringPool :> ExtraStringPool)
    @@ (NameColumns :> CatalogData(recs, 0)) @@ (NameTables :> TablesData(names, 0))
    @@ tabs @@ ExtraStreams

\* the catalog records of table t with columns named by the pool entries
\* names and with the attributes attrs
Schema(t, names, attrs) == [j \in 1..Len(attrs) |-> CatRec(t, j, names[j], attrs[j])]

\* MsiFileHash tables: File_, Options and the four parts of the hash as Long
\* columns; the parts as Short columns; a column more; a part less
HashSchemas ==
    {<<3583, 260, 260, 260, 260, 260>>, <<3583, 260, 1282, 1282, 260, 1282>>,
     <<3583, 260, 260, 260, 260, 260, 1282>>, <<3583, 260, 260, 260, 260>>}

HashInputs ==
    {ExtraInput(Schema(1, <<7, 8, 9, 10, 11, 12, 13>>, attrs), <<1>>,
                NameMsiFileHash :> TableData(attrs, n, s0, 0)) :
        attrs \in HashSchemas, n \in 0..MaxRows, s0 \in {0, 3}}

\* the stored cells of CustomAction rows (Action, Type, Source, Target): the
\* codes 0x25, 0x26, 0x33, 0x01 and the unknown 0x3F under the bias 0x8000, a
\* type whose bit 0x40 is set, targets with and without control characters,
\* an empty target, and a row with the action and code of the first one
\* whose target has control characters and an escape sequence
ActionRows ==
    {<<13, 32805, 0, 15>>, <<13, 32806, 0, 15>>, <<14, 32819, 0, 16>>, <<13, 32819, 0, 17>>,
     <<14, 32819, 0, 18>>, <<13, 32769, 0, 15>>, <<14, 32831, 0, 15>>, <<14, 32869, 0, 15>>,
     <<14, 32805, 0, 0>>, <<13, 32805, 0, 16>>}

\* a table stream holding the given rows of stored cells
RowsData(attrs, rows) ==
    Flatten([j \in 1..Len(attrs) |->
        Flatten([i \in 1..Len(rows) |->
            PackRaw(struct_format(attrs[j]), [lo |-> rows[i][j], hi |-> 0])])])

\* CustomAction with the columns Action, Type, Source, Target and every
\* sequence of up to MaxActions of the rows
ActionInputs ==
    {ExtraInput(Schema(2, <<3, 4, 5, 6>>, <<11775, 1282, 3583, 3583>>), <<2>>,
                NameCustomAction :> RowsData(<<11775, 1282, 3583, 3583>>, rows)) :
        rows \in SeqsUpTo(ActionRows, MaxActions)}

\* CustomAction tables of other shapes, as lists of (column name, attributes):
\* no Target column, no Action column, an integer Target column, the column
\* Action alone, a Short Action column, Type and Action exchanged, a Long
\* Type column
ActionSchemas ==
    {<<<<3, 11775>>, <<4, 1282>>, <<5, 3583>>>>,
     <<<<5, 11775>>, <<4, 1282>>, <<6, 3583>>>>,
     <<<<3, 11775>>, <<4, 1282>>, <<5, 3583>>, <<6, 768>>>>,
     <<<<3, 11775>>>>,
     <<<<3, 1282>>, <<4, 1282>>, <<5, 3583>>, <<6, 3583>>>>,
     <<<<4, 1282>>, <<3, 11775>>, <<5, 3583>>, <<6, 3583>>>>,
     <<<<3, 11775>>, <<4, 260>>, <<5, 3583>>, <<6, 3583>>>>}

ShapeInputs ==
    {ExtraInput(Schema(2, [j \in 1..Len(sch) |-> sch[j][1]], [j \in 1..Len(sch) |-> sch[j][2]]),
                <<2>>,
                NameCustomAction :>
                    RowsData([j \in 1..Len(sch) |-> sch[j][2]],
                             [i \in 1..Len(rows) |-> SubSeq(rows[i], 1, Len(sch))])) :
        sch \in ActionSchemas,
        rows \in {<<<<13, 32805, 0, 15>>, <<14, 32819, 0, 16>>>>,
                  <<<<14, 32769, 0, 15>>, <<13, 32806, 0, 17>>>>}}

\* both tables in one input, in either order, the MsiFileHash table with
\* all parts of the hash or with one part less
BothInputs ==
    {ExtraInput(IF first = 1
                THEN Schema(1, <<7, 8, 9, 10, 11, 12>>, attrs)
                     \o Schema(2, <<3, 4, 5, 6>>, <<11775, 1282, 3583, 3583>>)
                ELSE Schema(2, <<3, 4, 5, 6>>, <<11775, 1282, 3583, 3583>>)
                     \o Schema(1, <<7, 8, 9, 10, 11, 12>>, attrs),
                <<1, 2>>,
                (NameMsiFileHash :> TableData(attrs, 2, 1, 0))
                @@ (NameCustomAction :>
                       RowsData(<<11775, 1282, 3583, 3583>>,
                                <<<<13, 32805, 0, 15>>, <<14, 32819, 0, 16>>>>))) :
        first \in {1, 2},
        attrs \in {<<3583, 260, 260, 260, 260, 260>>, <<3583, 260, 260, 260, 260>>}}

ExtraInputs == HashInputs \cup ActionInputs \cup ShapeInputs \cup BothInputs

\* the pool of the inputs whose provided counts vary: the entries 1..7 of
\* MainStrings and as entry 8 the byte 0x81, which cp1252 does not define
CountStrings == Append(MainStrings, <<129>>)

\* provided counts: 1 everywhere, 0 everywhere, and the counts that unpack
\* computes when the rows of Foo name no string, resp. the string 4 once
CountSamples ==
    {<<1, 1, 1, 1, 1, 1, 1, 1>>, <<0, 0, 0, 0, 0, 0, 0, 0>>,
     <<3, 2, 1, 0, 0, 2, 0, 0>>, <<3, 2, 1, 1, 0, 2, 0, 0>>}

\* tables Foo (Id, Name) and Bar (Id) in the catalog and in the table list,
\* a stream for Foo alone, its rows holding the given pool indices as Name
CountInputs ==
    {(NameStringData :> Flatten(CountStrings))
     @@ (NameStringPool :>
            PoolStream(cp, [k \in 1..Len(CountStrings) |->
                               [size |-> Len(CountStrings[k]), rc |-> rcs[k]]]))
     @@ (NameColumns :> CatalogData(<<CatRec(1, 1, 2, 260), CatRec(1, 2, 3, 3583),
                                      CatRec(6, 1, 2, 3583)>>, 0))
     @@ (NameTables :> TablesData(<<1, 6>>, 0))
     @@ (Bang(Foo) :> RowsData(<<260, 3583>>, [i \in 1..Len(names) |-> <<0, names[i]>>])) :
        cp \in {437, 1252}, rcs \in CountSamples,
        names \in {<<>>, <<4>>, <<8>>, <<4, 7>>}}

\* the paths of streams that are no stream of the decoder: the four names
\* that are dropped, paths with and without the prefix 'binary' before their
\* first dot, the path of the JSON document, the path of the artifact of
\* action 'a', a table stream of no table, and a dropped name in lowercase
LeftoverPaths ==
    <<
      <<91, 53, 93, 83, 117, 109, 109, 97, 114, 121, 73, 110, 102, 111, 114, 109, 97, 116, 105, 111, 110>>,   \*  1 '[5]SummaryInformation'
      <<91, 53, 93, 68, 111, 99, 117, 109, 101, 110, 116, 83, 117, 109, 109, 97, 114, 121, 73, 110, 102, 111, 114, 109, 97, 116, 105, 111, 110>>,   \*  2 '[5]DocumentSummaryInformation'
      <<91, 53, 93, 68, 105, 103, 105, 116, 97, 108, 83, 105, 103, 110, 97, 116, 117, 114, 101>>,   \*  3 '[5]DigitalSignature'
      <<91, 53, 93, 77, 115, 105, 68, 105, 103, 105, 116, 97, 108, 83, 105, 103, 110, 97, 116, 117, 114, 101, 69, 120>>,   \*  4 '[5]MsiDigitalSignatureEx'
      <<66, 105, 110, 97, 114, 121, 46, 120>>,   \*  5 'Binary.x'
      <<66, 105, 110, 97, 114, 121, 47, 120>>,   \*  6 'Binary/x'
      <<66, 73, 78, 65, 82, 89, 46, 120, 46, 121>>,   \*  7 'BINARY.x.y'
      <<66, 105, 110, 97, 114, 121, 120, 46, 121>>,   \*  8 'Binaryx.y'
      <<98, 105, 110, 97, 114, 121>>,   \*  9 'binary'
      <<98, 105, 110, 97, 114, 121, 46>>,   \* 10 'binary.'
      <<77, 115, 105, 84, 97, 98, 108, 101, 115, 46, 106, 115, 111, 110>>,   \* 11 'MsiTables.json'
      <<65, 99, 116, 105, 111, 110, 47, 97, 46, 106, 115>>,   \* 12 'Action/a.js'
      <<33, 66, 97, 122>>,   \* 13 '!Baz'
      <<91, 53, 93, 115, 117, 109, 109, 97, 114, 121, 105, 110, 102, 111, 114, 109, 97, 116, 105, 111, 110>>>>   \* 14 '[5]summaryinformation'

\* a stream for each path of a set of positions of LeftoverPaths, holding
\* the one byte k at the k-th path
LeftoverStreams(S) ==
    [p \in {LeftoverPaths[k] : k \in S} |->
        <<CHOOSE k \in 1..Len(LeftoverPaths) : LeftoverPaths[k] = p>>]

\* CustomAction with two JScript rows of action 'a', the targets 'x=1' and
\* '\x01\x02Hello[\1]', next to up to MaxLeftover of the streams above
LeftoverInputs ==
    {(NameStringData :> Flatten(ExtraStrings)) @@ (NameStringPool :> ExtraStringPool)
     @@ (NameColumns :> CatalogData(Schema(2, <<3, 4, 5, 6>>, <<11775, 1282, 3583, 3583>>), 0))
     @@ (NameTables :> TablesData(<<2>>, 0))
     @@ (NameCustomAction :> RowsData(<<11775, 1282, 3583, 3583>>,
                                      <<<<13, 32805, 0, 15>>, <<13, 32805, 0, 16>>>>))
     @@ LeftoverStreams(S) :
        S \in {T \in SUBSET (1..Len(LeftoverPaths)) : Cardinality(T) <= MaxLeftover}}

Inputs ==
    RowInputs \cup CatalogInputs \cup NameInputs \cup MissingInputs \cup ExtraInputs
    \cup CountInputs \cup LeftoverInputs

\* two stream mappings differ at most in the provided_ref_count fields of
\* the records of '!_StringPool' (msi.py:96, the second u16 of a record)
SameButCounts(a, b) ==
    /\ DOMAIN a = DOMAIN b
    /\ NameStringPool \in DOMAIN a
    /\ \A k \in DOMAIN a \ {NameStringPool} : a[k] = b[k]
    /\ Len(a[NameStringPool]) = Len(b[NameStringPool])
    /\ \A i \in 1..Len(a[NameStringPool]) :
           (i <= 4 \/ (i - 1) % 4 < 2) => a[NameStringPool][i] = b[NameStringPool][i]

\* msi.py:156: the dict streams has its keys in the order in which the
\* container reader yields the streams. The order tells only where two
\* streams come to one path (msi.py:277): for such a mapping the ascending
\* and the descending order are drawn, for any other the ascending one
KeyOrders(d) ==
    LET asc == Sorted(DOMAIN d)
    IN  IF \E p, q \in DOMAIN d : p # q /\ fix_msi_path(p) = fix_msi_path(q)
        THEN {asc, [k \in 1..Len(asc) |-> asc[Len(asc) + 1 - k]]}
        ELSE {asc}

----------------------------------------------------------------------------
(* xtmsi.unpack, msi.py:155-284                                            *)

Init ==
    /\ input \in Inputs
    /\ debug = FALSE
    /\ prev = NoPrev
    /\ UnitsIdle
    /\ streams = input
    /\ order \in KeyOrders(input)
    /\ pc = "strings"
    /\ error = "none"
    /\ codepage = 0
    /\ strings = <<>>
    /\ provided_ref_count = <<>>
    /\ computed_ref_count = <<>>
    /\ calls = <<>>
    /\ ret = NoRet
    /\ UnpackIdle

\* Raise with the exception caught: the output is made of what was decoded
RaiseSwallowed(e) ==
    /\ pc' = "assemble"
    /\ error' = e

\* an exception leaves unpack: nothing is yielded
Raise(e) ==
    /\ pc' = "failed"
    /\ error' = e

\* msi.py:173 strings = MSIStringData(stream('!_StringData'), stream('!_StringPool'))
LoadStrings ==
    /\ pc = "strings"
    /\ calls' = <<>>
    /\ UNCHANGED <<runvars, ret, unpackvars>>
    /\ IF NameStringData \notin DOMAIN streams
       THEN Raise("KeyError") /\ UNCHANGED <<streams, order, poolvars>>
       ELSE IF NameStringPool \notin DOMAIN streams
       THEN /\ Raise("KeyError")
            /\ streams' = Pop(streams, NameStringData)
            /\ order' = WithoutKeys(order, {NameStringData})
            /\ UNCHANGED poolvars
       ELSE LET r == MSIStringDataInit(streams[NameStringData], streams[NameStringPool])
            IN  /\ streams' = Pop(Pop(streams, NameStringData), NameStringPool)
                /\ order' = WithoutKeys(order, {NameStringData, NameStringPool})
                /\ IF r.err # "none"
                   THEN Raise(r.err) /\ UNCHANGED poolvars
                   ELSE /\ pc' = "columns"
                        /\ error' = "none"
                        /\ codepage' = r.codepage
                        /\ strings' = [k \in 1..Len(r.entries) |-> r.entries[k].string]
                        /\ provided_ref_count' = [k \in 1..Len(r.entries) |-> r.entries[k].rc]
                        /\ computed_ref_count' = [k \in 1..Len(r.entries) |-> 0]

\* msi.py:175 stream_to_rows(stream('!_Columns'), 'HHHH') is called and
\* started: msi.py:165-167
OpenColumns ==
    /\ pc = "columns"
    /\ calls' = <<>>
    /\ UNCHANGED <<runvars, ret, poolvars, rowvars, tablevars, namevars, outvars>>
    /\ IF NameColumns \notin DOMAIN streams
       THEN Raise("KeyError") /\ UNCHANGED <<streams, order, genvars>>
       ELSE /\ streams' = Pop(streams, NameColumns)
            /\ order' = WithoutKeys(order, {NameColumns})
            /\ gen' = StartGen(streams[NameColumns], <<"H", "H", "H", "H">>)
            /\ site' = "catalog"
            /\ pc' = "arrays"
            /\ error' = "none"

\* msi.py:168, one turn of the list comprehension: the array of the next
\* column is read; a read past the end of the data raises EOFError
ReadArray ==
    /\ pc = "arrays"
    /\ Len(gen.columns) < Len(gen.fmt)
    /\ calls' = <<>>
    /\ UNCHANGED <<runvars, ret, streams, order, poolvars, site, rowvars, tablevars, namevars, outvars>>
    /\ LET sc   == gen.fmt[Len(gen.columns) + 1]
           size == CharSize(sc) * gen.row_count
       IN  IF gen.pos + size > Len(gen.data)
           THEN Raise("EOFError") /\ UNCHANGED gen
           ELSE /\ gen' = [gen EXCEPT
                       !.columns = Append(@, ReadStruct(gen.data, gen.pos, sc, gen.row_count)),
                       !.pos = @ + size]
                /\ pc' = IF Len(gen.columns) + 1 = Len(gen.fmt) THEN "rows" ELSE "arrays"
                /\ error' = "none"

\* msi.py:175-178, one turn of the loop over the catalog records
CatalogRecord ==
    /\ pc = "rows"
    /\ site = "catalog"
    /\ gen.i + 1 < gen.row_count
    /\ LET f == CatalogFields(Row(gen.columns, gen.i + 1))
           r == RefAll(strings, codepage, computed_ref_count,
                       <<f.tbl_name_id, f.col_name_id>>)
       IN  /\ gen' = [gen EXCEPT !.i = @ + 1]
           /\ rec' = <<f.tbl_name_id, f.col_number, f.col_name_id, f.col_attributes>>
           /\ calls' = r.calls
           /\ computed_ref_count' = r.computed
           /\ IF r.err # "none"
              THEN Raise(r.err) /\ UNCHANGED tables
              ELSE /\ tables' = TablesInsert(tables, r.texts[1], r.texts[2],
                                             f.col_number, f.col_attributes)
                   /\ UNCHANGED <<pc, error>>
    /\ UNCHANGED <<runvars, ret, streams, order, codepage, strings, provided_ref_count, site,
                   rowvars, tbl, processed, processed_table_data, namevars, outvars>>

\* msi.py:180 table_names_given, once the catalog loop has ended
ReadTables ==
    /\ pc = "rows"
    /\ site = "catalog"
    /\ gen.i + 1 = gen.row_count
    /\ UNCHANGED <<runvars, ret, codepage, strings, provided_ref_count, rowvars, tablevars, log,
                   outvars>>
    /\ IF NameTables \notin DOMAIN streams
       THEN /\ Raise("KeyError")
            /\ calls' = <<>>
            /\ UNCHANGED <<streams, order, computed_ref_count, genvars, table_names_given>>
       ELSE LET r == RefAll(strings, codepage, computed_ref_count,
                            ChunksUnpack(streams[NameTables]))
            IN  /\ streams' = Pop(streams, NameTables)
                /\ order' = WithoutKeys(order, {NameTables})
                /\ calls' = r.calls
                /\ computed_ref_count' = r.computed
                /\ IF r.err # "none"
                   THEN Raise(r.err) /\ UNCHANGED <<genvars, table_names_given>>
                   ELSE /\ table_names_given' = {r.texts[k] : k \in 1..Len(r.texts)}
                        /\ gen' = NoGen
                        /\ site' = "none"
                        /\ pc' = "reconcile"
                        /\ error' = "none"

\* msi.py:181 table_names_known
table_names_known == {tables[k].name : k \in 1..Len(tables)}

\* Reconcile that warns of the names known but not given only
ReconcileKnownOnly ==
    /\ pc = "reconcile"
    /\ log' = [m \in {[kind |-> "known but not given", name |-> n] :
                          n \in table_names_known \ table_names_given} |-> 1]
    /\ pc' = "table"
    /\ calls' = <<>>
    /\ UNCHANGED <<runvars, error, ret, streams, order, poolvars, genvars, rowvars, tablevars,
                   table_names_given, outvars>>

\* msi.py:181-186: one warning for each name of either difference
Reconcile ==
    /\ pc = "reconcile"
    /\ log' = [m \in {[kind |-> "known but not given", name |-> n] :
                          n \in table_names_known \ table_names_given}
                     \cup {[kind |-> "given but not known", name |-> n] :
                          n \in table_names_given \ table_names_known} |-> 1]
    /\ pc' = "table"
    /\ calls' = <<>>
    /\ UNCHANGED <<runvars, error, ret, streams, order, poolvars, genvars, rowvars, tablevars,
                   table_names_given, outvars>>

\* SkipTable that records the table without rows
SkipTableEmpty ==
    /\ pc = "table"
    /\ tbl <= Len(tables)
    /\ Bang(tables[tbl].name) \notin DOMAIN streams
    /\ tbl' = tbl + 1
    /\ processed_table_data' =
           Append(processed_table_data, [name |-> tables[tbl].name, rows |-> <<>>])
    /\ calls' = <<>>
    /\ UNCHANGED <<runvars, pc, error, ret, streams, order, poolvars, genvars, rowvars, tables,
                   rec, processed, namevars, outvars>>

\* msi.py:190-193: the table has no stream and is passed over
SkipTable ==
    /\ pc = "table"
    /\ tbl <= Len(tables)
    /\ Bang(tables[tbl].name) \notin DOMAIN streams
    /\ tbl' = tbl + 1
    /\ calls' = <<>>
    /\ UNCHANGED <<runvars, pc, error, ret, streams, order, poolvars, genvars, rowvars, tables,
                   rec, processed, processed_table_data, namevars, outvars>>

\* msi.py:190-196: the stream of the table is taken and stream_to_rows started
OpenTable ==
    /\ pc = "table"
    /\ tbl <= Len(tables)
    /\ Bang(tables[tbl].name) \in DOMAIN streams
    /\ streams' = Pop(streams, Bang(tables[tbl].name))
    /\ order' = WithoutKeys(order, {Bang(tables[tbl].name)})
    /\ processed' = <<>>
    /\ gen' = StartGen(streams[Bang(tables[tbl].name)], column_formats(tables[tbl].cols))
    /\ site' = "table"
    /\ pc' = "arrays"
    /\ calls' = <<>>
    /\ UNCHANGED <<runvars, error, ret, poolvars, rowvars, tables, rec, tbl,
                   processed_table_data, namevars, outvars>>

\* msi.py:169-170 and 196-197: the next row is yielded
NextRow ==
    /\ pc = "rows"
    /\ site = "table"
    /\ gen.i + 1 < gen.row_count
    /\ gen' = [gen EXCEPT !.i = @ + 1]
    /\ row' = Row(gen.columns, gen.i + 1)
    /\ values' = <<>>
    /\ pc' = "cell"
    /\ calls' = <<>>
    /\ UNCHANGED <<runvars, error, ret, streams, order, poolvars, site, tablevars, namevars, outvars>>

\* msi.py:198-210, one turn of the loop over the cells of the row
DecodeCell ==
    /\ pc = "cell"
    /\ Len(values) < Len(row)
    /\ LET index == Len(values) + 1
           attributes == tables[tbl].cols[index].attributes
           value == row[index]
           fails == CellRefs(attributes, value, strings)
                    /\ RefFails(strings, codepage, value.lo) # "none"
       IN  /\ values' = IF fails THEN values
                        ELSE Append(values, CellValue(attributes, value, strings, codepage))
           /\ computed_ref_count' =
                  IF CellRefs(attributes, value, strings)
                  THEN RefCounts(strings, computed_ref_count, value.lo, TRUE)
                  ELSE computed_ref_count
           /\ calls' =
                  IF type(attributes) \in {"Long", "Short"} THEN <<>>
                  ELSE <<[op |-> "contains", index |-> value.lo, increment |-> FALSE]>>
                       \o (IF CellRefs(attributes, value, strings)
                           THEN <<[op |-> "ref", index |-> value.lo, increment |-> TRUE]>>
                           ELSE <<>>)
           /\ IF fails
              THEN Raise(RefFails(strings, codepage, value.lo))
              ELSE pc' = (IF index = Len(row) THEN "entry" ELSE "cell") /\ UNCHANGED error
    /\ UNCHANGED <<runvars, ret, streams, order, codepage, strings, provided_ref_count,
                   genvars, row, tablevars, namevars, outvars>>

\* msi.py:212-231: the record of the row is appended to processed
FinishRow ==
    /\ pc = "entry"
    /\ LET r == RowResult(Bang(tables[tbl].name), tables[tbl].cols, row, values)
       IN  /\ processed' = IF r.appended THEN Append(processed, r.entry) ELSE processed
           /\ streams' = IF r.artifact.emit
                         THEN (r.artifact.path :> r.artifact.data) @@ streams
                         ELSE streams
           /\ order' = IF r.artifact.emit THEN WithKey(order, r.artifact.path) ELSE order
           /\ IF r.err # "none" THEN Raise(r.err) ELSE pc' = "rows" /\ UNCHANGED error
    /\ calls' = <<>>
    /\ UNCHANGED <<runvars, ret, poolvars, genvars, rowvars, tables, rec, tbl,
                   processed_table_data, namevars, outvars>>

\* msi.py:252, once the rows of the table have ended
EndTable ==
    /\ pc = "rows"
    /\ site = "table"
    /\ gen.i + 1 = gen.row_count
    /\ processed_table_data' =
           Append(processed_table_data, [name |-> tables[tbl].name, rows |-> processed])
    /\ tbl' = tbl + 1
    /\ gen' = NoGen
    /\ site' = "none"
    /\ pc' = "table"
    /\ calls' = <<>>
    /\ UNCHANGED <<runvars, error, ret, streams, order, poolvars, rowvars, tables, rec, processed,
                   namevars, outvars>>

\* TablesDone that ends the loop after the first table
TablesDoneEarly ==
    /\ pc = "table"
    /\ tbl > 1
    /\ pc' = "ignored"
    /\ calls' = <<>>
    /\ UNCHANGED <<runvars, error, ret, streams, order, poolvars, unpackvars>>

\* msi.py:190: the loop over the tables has ended
TablesDone ==
    /\ pc = "table"
    /\ tbl > Len(tables)
    /\ pc' = "ignored"
    /\ calls' = <<>>
    /\ UNCHANGED <<runvars, error, ret, streams, order, poolvars, unpackvars>>

\* msi.py:254-260: the streams that are never passed on are dropped
DropIgnored ==
    /\ pc = "ignored"
    /\ streams' = [k \in DOMAIN streams \ IgnoredStreams |-> streams[k]]
    /\ order' = WithoutKeys(order, IgnoredStreams)
    /\ pc' = "check"
    /\ calls' = <<>>
    /\ UNCHANGED <<runvars, error, ret, poolvars, unpackvars>>

\* msi.py:262-269: the reference counts are compared. log_debug is called
\* for every entry with c != p, its second argument strings.ref(k + 1, False)
\* being evaluated first, and the loop ends at the first entry whose string
\* ref cannot decode; log_debug returns whether debug messages are emitted,
\* which the log level of the run decides: debug holds it from here on, and
\* a second run has the log level of the first
ConsistencyCheck ==
    /\ pc = "check"
    /\ LET all   == Mismatches(computed_ref_count, provided_ref_count)
           fails == {j \in 1..Len(all) : RefFails(strings, codepage, all[j]) # "none"}
           stop  == IF fails = {} THEN 0 ELSE CHOOSE j \in fails : \A i \in fails : j <= i
           bad   == IF stop = 0 THEN all ELSE SubSeq(all, 1, stop - 1)
           msgs  == [j \in 1..Len(bad) |->
                        DebugMessage(computed_ref_count[bad[j]], provided_ref_count[bad[j]],
                                     RefValue(strings, codepage, bad[j]))]
       IN  /\ calls' = [j \in 1..(IF stop = 0 THEN Len(all) ELSE stop) |->
                           [op |-> "ref", index |-> all[j], increment |-> FALSE]]
           /\ IF stop = 0
              THEN pc' = "assemble" /\ UNCHANGED error
              ELSE Raise(RefFails(strings, codepage, all[stop]))
           /\ \E emitted \in (IF prev = NoPrev THEN BOOLEAN ELSE {debug}) :
                  /\ debug' = emitted
                  /\ inconsistencies' = IF emitted THEN 0 ELSE Len(bad)
                  /\ log' = Logged(log, IF ~emitted /\ bad # <<>> /\ stop = 0
                                        THEN Append(msgs, InfoMessage(Len(bad)))
                                        ELSE msgs)
    /\ UNCHANGED <<input, prev, unitvars, ret, streams, order, poolvars, genvars, rowvars,
                   tablevars, table_names_given, out>>

\* Assemble with a stream at the path of the JSON document kept
AssembleKeepsStream ==
    /\ pc = "assemble"
    /\ streams' = FixedStreams(streams, order)
                  @@ (NameJson :> Encode(JsonDumps(processed_table_data)))
    /\ order' = WithKey(FixedKeys(order), NameJson)
    /\ pc' = "yield"
    /\ calls' = <<>>
    /\ UNCHANGED <<runvars, error, ret, poolvars, unpackvars>>

\* msi.py:271-280: the paths are fixed and the JSON document is added
Assemble ==
    /\ pc = "assemble"
    /\ streams' = (NameJson :> Encode(JsonDumps(processed_table_data)))
                  @@ FixedStreams(streams, order)
    /\ order' = WithKey(FixedKeys(order), NameJson)
    /\ pc' = "yield"
    /\ calls' = <<>>
    /\ UNCHANGED <<runvars, error, ret, poolvars, unpackvars>>

\* msi.py:282-284: the next result is yielded, in the order of the sorted
\* paths; after the last one the generator ends
YieldNext ==
    /\ pc = "yield"
    /\ LET paths == Sorted(DOMAIN streams)
           path  == paths[Len(out) + 1]
       IN  /\ out' = Append(out, [path |-> path, data |-> streams[path]])
           /\ pc' = IF Len(out) + 1 = Len(paths) THEN "done" ELSE "yield"
    /\ calls' = <<>>
    /\ UNCHANGED <<runvars, error, ret, streams, order, poolvars, genvars, rowvars, tablevars,
                   namevars, inconsistencies>>

\* msi.py:155: unpack is called once more, with the same log level, on an
\* input that differs from that of the run that has ended in provided
\* reference counts only; what the first run yielded is kept in prev
Rerun ==
    /\ pc \in {"done", "failed"}
    /\ prev = NoPrev
    /\ \E twin \in CountInputs :
           /\ twin # input
           /\ SameButCounts(twin, input)
           /\ input' = twin
           /\ streams' = twin
           /\ order' \in KeyOrders(twin)
    /\ prev' = [run |-> 1, error |-> error, tables |-> processed_table_data, out |-> out]
    /\ debug' = debug
    /\ UNCHANGED unitvars
    /\ pc' = "strings"
    /\ error' = "none"
    /\ codepage' = 0
    /\ strings' = <<>>
    /\ provided_ref_count' = <<>>
    /\ computed_ref_count' = <<>>
    /\ calls' = <<>>
    /\ ret' = NoRet
    /\ tables' = <<>>
    /\ rec' = <<>>
    /\ site' = "none"
    /\ gen' = NoGen
    /\ tbl' = 1
    /\ row' = <<>>
    /\ values' = <<>>
    /\ processed' = <<>>
    /\ processed_table_data' = <<>>
    /\ table_names_given' = {}
    /\ log' = <<>>
    /\ inconsistencies' = 0
    /\ out' = <<>>

Next ==
    \/ LoadStrings
    \/ OpenColumns
    \/ ReadArray
    \/ CatalogRecord
    \/ ReadTables
    \/ Reconcile
    \/ SkipTable
    \/ OpenTable
    \/ NextRow
    \/ DecodeCell
    \/ FinishRow
    \/ EndTable
    \/ TablesDone
    \/ DropIgnored
    \/ ConsistencyCheck
    \/ Assemble
    \/ YieldNext
    \/ Rerun

Spec == Init /\ [][Next]_vars

----------------------------------------------------------------------------
(* packbits, packbits.py: a unit is made from its arguments and process()   *)
(* is called on a byte string of codewords.                                 *)

\* the unpack variables of a state in which no unpack runs
MsiIdle ==
    /\ input = <<>>
    /\ debug = FALSE
    /\ prev = NoPrev
    /\ streams = <<>>
    /\ order = <<>>
    /\ pc = "none"
    /\ error = "none"
    /\ codepage = 0
    /\ strings = <<>>
    /\ provided_ref_count = <<>>
    /\ computed_ref_count = <<>>
    /\ calls = <<>>
    /\ ret = NoRet
    /\ UnpackIdle

\* a | b on non-negative integers
BitOr(a, b) == a + b - BitAnd(a, b)

\* packbits.py:27-31 _shifted_bits with the bit order taken from the high
\* end for "lsb" and from the low end for "msb"
ShiftedBitsSwapped(bit_order, bit_width, i, b) ==
    IF bit_order = "msb" THEN b * 2^i
    ELSE b * 2^(8 - bit_width - i)

\* packbits.py:27-31 _shifted_bits
shifted_bits(bit_order, bit_width, i, b) ==
    IF bit_order = "lsb" THEN b * 2^i
    ELSE b * 2^(8 - bit_width - i)

\* struct.pack("B", n) raises struct.error unless 0 <= n <= 255
PackB(n) == IF n >= 0 /\ n <= 255 THEN [err |-> "none", bytes |-> <<n>>]
            ELSE [err |-> "struct.error", bytes |-> <<>>]

\* the byte strings of up to MaxTail bytes that follow a whole byte of
\* codewords in the inputs: the codeword 1 and the special value 0xAA
PackTails == UNION {[1..k -> {1, 170}] : k \in 0..MaxTail}

\* inputs of process(): the codewords of one whole byte, every combination of
\* them, after nothing or after a codeword and a special value, and followed
\* by a tail
PackData(w) ==
    {pre \o mid \o suf :
        pre \in {<<>>, <<1, 170>>},
        mid \in [1..(8 \div w) -> 0..(2^w - 1)],
        suf \in PackTails}

\* other inputs: none; the four codewords of the docstring; the data of the
\* tests (test_packbits.py:11, 21); bytes that are no codeword of one bit
PackSamples ==
    {<<>>, <<0, 1, 0, 1>>, <<0, 1, 0, 1, 0, 1, 0, 1>>, <<170, 170>>,
     <<0, 0, 0, 0, 0, 0, 0, 0, 1, 1, 1, 1, 1, 1, 1, 1, 170, 0, 0, 0, 0, 1, 1, 1, 1>>,
     <<0, 0, 0, 0, 3, 3, 3, 3, 170, 0, 0, 3, 3>>,
     <<2, 0, 0, 0, 0, 0, 0, 0>>, <<255, 0, 0, 0, 0, 0, 0, 0>>, <<0, 255, 170>>}

\* a unit before __init__ has run, with the arguments of its construction
\* and the data its process() will be called on
NewPackbits(specials, bit_width, bit_order, data) ==
    [pc |-> "new", error |-> "none",
     specials |-> specials, special_values |-> <<>>,
     bit_width |-> bit_width, bit_order |-> bit_order,
     data |-> data, out |-> <<>>, current |-> 0, current_started |-> FALSE,
     i_in_byte |-> 0, i |-> 0, j |-> 0]

PackInputs ==
    UNION {{NewPackbits(<<<<170>>>>, w, o, d) : o \in {"msb", "lsb"}, d \in PackData(w)} :
               w \in {1, 2, 4}}
    \cup
    \* no special value, a special value of two bytes, an unsupported width
    {NewPackbits(sp, w, o, d) :
        sp \in {<<>>, <<<<170>>>>, <<<<1>>, <<170>>>>, <<<<170, 1>>>>},
        w \in {1, 2, 3, 4}, o \in {"msb", "lsb"}, d \in PackSamples}

PackInit ==
    /\ MsiIdle
    /\ interp = NoUnit
    /\ packbits \in PackInputs

\* packbits.py:15-25 __init__: the unit is made, or the arguments are refused
PackbitsNew ==
    /\ packbits.pc = "new"
    /\ packbits' =
         IF packbits.bit_width \notin {1, 2, 4}
         THEN [packbits EXCEPT !.pc = "invalid", !.error = "ValueError"]
         ELSE IF \E k \in 1..Len(packbits.specials) : Len(packbits.specials[k]) # 1
         THEN [packbits EXCEPT !.pc = "invalid", !.error = "struct.error"]
         ELSE [packbits EXCEPT !.pc = "ready",
                               !.special_values =
                                   [k \in 1..Len(packbits.specials) |-> packbits.specials[k][1]]]
    /\ UNCHANGED <<msivars, interp>>

\* packbits.py:33-41: process(data) is entered
ProcessEnter ==
    /\ packbits.pc = "ready"
    /\ packbits' = [packbits EXCEPT !.pc = "while", !.out = <<>>, !.current = 0,
                                    !.current_started = FALSE, !.i_in_byte = 0, !.i = 0]
    /\ UNCHANGED <<msivars, interp>>

\* packbits.py:42, 69: the test of the while loop; the for loop is entered
\* or out is returned
ProcessWhile ==
    /\ packbits.pc = "while"
    /\ packbits' = IF packbits.i < Len(packbits.data)
                   THEN [packbits EXCEPT !.pc = "for", !.j = 0]
                   ELSE [packbits EXCEPT !.pc = "done"]
    /\ UNCHANGED <<msivars, interp>>

\* packbits.py:48-55: the codeword b is a special value
ProcessSpecial(u, b) ==
    LET flush == PackB(u.current)
    IN  IF u.current_started
        THEN IF flush.err # "none"
             THEN [u EXCEPT !.pc = "failed", !.error = flush.err]
             ELSE [u EXCEPT !.out = @ \o flush.bytes \o <<b>>, !.current = 0,
                            !.current_started = FALSE, !.i_in_byte = 0,
                            !.i = @ + 1, !.j = @ + 1]
        ELSE [u EXCEPT !.out = @ \o <<b>>, !.i = @ + 1, !.j = @ + 1]

\* packbits.py:56-65: the codeword b is packed
ProcessCodeword(u, b) ==
    LET current   == BitOr(u.current, shifted_bits(u.bit_order, u.bit_width, u.i_in_byte, b))
        i_in_byte == (u.i_in_byte + u.bit_width) % 8
        flush     == PackB(current)
    IN  IF i_in_byte < u.i_in_byte
        THEN IF flush.err # "none"
             THEN [u EXCEPT !.pc = "failed", !.error = flush.err, !.current = current,
                            !.current_started = TRUE, !.i_in_byte = i_in_byte]
             ELSE [u EXCEPT !.out = @ \o flush.bytes, !.current = 0,
                            !.current_started = FALSE, !.i_in_byte = i_in_byte,
                            !.i = @ + 1, !.j = @ + 1]
        ELSE [u EXCEPT !.current = current, !.current_started = TRUE,
                       !.i_in_byte = i_in_byte, !.i = @ + 1, !.j = @ + 1]

\* packbits.py:43-67: one round of the for loop, or its end
ProcessFor ==
    /\ packbits.pc = "for"
    /\ packbits' =
         IF packbits.j >= 8 \div packbits.bit_width \/ packbits.i >= Len(packbits.data)
         THEN [packbits EXCEPT !.pc = "while"]
         ELSE LET b == packbits.data[packbits.i + 1]
              IN  IF \E k \in 1..Len(packbits.special_values) : packbits.special_values[k] = b
                  THEN ProcessSpecial(packbits, b)
                  ELSE ProcessCodeword(packbits, b)
    /\ UNCHANGED <<msivars, interp>>

PackNext ==
    \/ PackbitsNew
    \/ ProcessEnter
    \/ ProcessWhile
    \/ ProcessFor

PackSpec == PackInit /\ [][PackNext]_vars

-----------------------------------------------------------------------------
(* interp (units/pattern/interp.py)                                        *)

\* the code points of '{' and '}'
LBrace == 123
RBrace == 125

\* interp.py:26 formatPartSeparator(s) and interp.py:30 formatPartStruct(s)
formatPartSeparator(s) == [kind |-> "separator", s |-> s]
formatPartStruct(s) == [kind |-> "struct", s |-> s]

\* the position of the first '{' of f at or after p, Len(f) + 1 without one
RECURSIVE NextBrace(_, _)
NextBrace(f, p) ==
    IF p > Len(f) THEN Len(f) + 1
    ELSE IF f[p] = LBrace THEN p
    ELSE NextBrace(f, p + 1)

\* the position of the last '}' of r that has a character before it, 0
\* without one: where the greedy [^{]+ of the format group ends
LastClose(r) ==
    LET S == {i \in 2..Len(r) : r[i] = RBrace}
    IN  IF S = {} THEN 0 ELSE CHOOSE i \in S : \A j \in S : j <= i

\* interp.py:43-48 the parts one match of the expression adds
MatchParts(pre, format, post) ==
    (IF pre # <<>> THEN <<formatPartSeparator(pre)>> ELSE <<>>)
    \o (IF format # <<>> THEN <<formatPartStruct(format)>> ELSE <<>>)
    \o (IF post # <<>> THEN <<formatPartSeparator(post)>> ELSE <<>>)

\* interp.py:40-48 the parts of the matches rex.finditer finds in f from
\* position p on. A match is [^{]* up to a '{', the longest [^{]+ that a '}'
\* follows, and [^{]* up to the next '{'; where the text after a '{' has no
\* such '}', the search goes on behind that '{'.
RECURSIVE FormatPartsFrom(_, _)
FormatPartsFrom(f, p) ==
    LET q == NextBrace(f, p)
    IN  IF q > Len(f) THEN <<>>
        ELSE LET q2 == NextBrace(f, q + 1)
                 r == SubSeq(f, q + 1, q2 - 1)
                 e == LastClose(r)
             IN  IF e = 0 THEN FormatPartsFrom(f, q + 1)
                 ELSE MatchParts(SubSeq(f, p, q - 1), SubSeq(r, 1, e - 1),
                                 SubSeq(r, e + 1, Len(r)))
                      \o FormatPartsFrom(f, q2)

\* the struct formats of the inputs: the bytes struct.calcsize counts, the
\* number of values struct.unpack returns, and whether the value is signed;
\* any other text of the inputs is no struct format (struct.error)
StructFormats ==
    {[s |-> <<60, 73>>, size |-> 4, values |-> 1, signed |-> FALSE],      \* <I
     [s |-> <<60, 72>>, size |-> 2, values |-> 1, signed |-> FALSE],      \* <H
     [s |-> <<66>>, size |-> 1, values |-> 1, signed |-> FALSE],          \* B
     [s |-> <<98>>, size |-> 1, values |-> 1, signed |-> TRUE],           \* b
     [s |-> <<60, 72, 72>>, size |-> 4, values |-> 2, signed |-> FALSE],  \* <HH
     [s |-> <<120>>, size |-> 1, values |-> 0, signed |-> FALSE],         \* x
     [s |-> <<48, 115>>, size |-> 0, values |-> 1, signed |-> FALSE]}     \* 0s

IsStructFormat(s) == \E f \in StructFormats : f.s = s
StructFormat(s) == CHOOSE f \in StructFormats : f.s = s

\* str(value) of the little-endian unsigned integer of four bytes: the value
\* is (b3 * 256 + b2) * 65536 + b2 * 256 + b1 and is written as its quotient
\* and remainder by 10000, which keeps every intermediate below 2^31
U32Text(b) ==
    LET hi == b[3] + 256 * b[4]
        lo == b[1] + 256 * b[2]
        x == hi * 5536 + lo
        q == hi * 6 + (x \div 10000)
        r == x % 10000
    IN  IF q = 0 THEN NatText(r)
        ELSE NatText(q) \o <<48 + (r \div 1000), 48 + ((r \div 100) % 10),
                             48 + ((r \div 10) % 10), 48 + (r % 10)>>

\* str(value) of the one value struct.unpack reads from the bytes b
StrOfValue(f, b) ==
    IF f.size = 0 THEN <<98, 39, 39>>  \* b''
    ELSE IF f.size = 4 THEN U32Text(b)
    ELSE IF f.size = 2 THEN NatText(b[1] + 256 * b[2])
    ELSE IF f.signed /\ b[1] >= 128 THEN IntText(b[1] - 256)
    ELSE NatText(b[1])

\* interp.py:34 str(value).encode(Unit.codec): the text of the value, which
\* is computed once, encoded
EncodedValue(f, b) == CHOOSE e \in {Encode(t) : t \in {StrOfValue(f, b)}} : TRUE

\* interp.py:26-34 part.eat(data) with a field taking one byte off the data,
\* whatever its size
EatOneByte(part, data) ==
    IF part.kind = "separator"
    THEN [err |-> "none", tmp |-> Encode(part.s), data |-> data]
    ELSE IF ~IsStructFormat(part.s)
    THEN [err |-> "struct.error", tmp |-> <<>>, data |-> data]
    ELSE LET f == StructFormat(part.s)
         IN  IF Len(data) < f.size
             THEN [err |-> "struct.error", tmp |-> <<>>, data |-> data]
             ELSE IF f.values # 1
             THEN [err |-> "ValueError", tmp |-> <<>>, data |-> data]
             ELSE [err |-> "none", tmp |-> EncodedValue(f, SubSeq(data, 1, f.size)),
                   data |-> SubSeq(data, 2, Len(data))]

\* interp.py:26-34 part.eat(data) with a field that leaves the data as it is
EatLeavesData(part, data) ==
    IF part.kind = "separator"
    THEN [err |-> "none", tmp |-> Encode(part.s), data |-> data]
    ELSE IF ~IsStructFormat(part.s)
    THEN [err |-> "struct.error", tmp |-> <<>>, data |-> data]
    ELSE LET f == StructFormat(part.s)
         IN  IF Len(data) < f.size
             THEN [err |-> "struct.error", tmp |-> <<>>, data |-> data]
             ELSE IF f.values # 1
             THEN [err |-> "ValueError", tmp |-> <<>>, data |-> data]
             ELSE [err |-> "none", tmp |-> EncodedValue(f, SubSeq(data, 1, f.size)),
                   data |-> data]

\* interp.py:26-34 part.eat(data): the bytes made and the data left, or the
\* exception raised
eat(part, data) ==
    IF part.kind = "separator"
    THEN [err |-> "none", tmp |-> Encode(part.s), data |-> data]
    ELSE IF ~IsStructFormat(part.s)
    THEN [err |-> "struct.error", tmp |-> <<>>, data |-> data]
    ELSE LET f == StructFormat(part.s)
         IN  IF Len(data) < f.size
             THEN [err |-> "struct.error", tmp |-> <<>>, data |-> data]
             ELSE IF f.values # 1
             THEN [err |-> "ValueError", tmp |-> <<>>, data |-> data]
             ELSE [err |-> "none", tmp |-> EncodedValue(f, SubSeq(data, 1, f.size)),
                   data |-> SubSeq(data, f.size + 1, Len(data))]

\* the format strings of the inputs
InterpFormats ==
    {<<123, 60, 73, 125>>,                                      \* {<I}
     <<123, 60, 73, 125, 44, 123, 60, 73, 125, 44>>,            \* {<I},{<I},
     <<123, 60, 73, 125, 44, 123, 60, 73, 125>>,                \* {<I},{<I}
     <<123, 66, 125>>,                                          \* {B}
     <<97, 123, 66, 125, 233>>,                                 \* a{B}e-acute
     <<123, 60, 72, 125, 45, 123, 98, 125>>,                    \* {<H}-{b}
     <<123, 66, 125, 123, 66, 125, 59>>,                        \* {B}{B};
     <<>>,                                                      \* no part
     <<97, 98, 99>>,                                            \* abc
     <<97, 123, 125, 120, 123, 66, 125>>,                       \* a{}x{B}
     <<123, 60, 73, 125, 125>>,                                 \* {<I}}
     <<123, 120, 125>>,                                         \* {x}
     <<123, 60, 72, 72, 125>>,                                  \* {<HH}
     <<123, 66, 123, 98, 125, 58, 125>>,                        \* {B{b}:}
     <<123, 48, 115, 125>>,                                     \* {0s}
     <<123, 48, 115, 125, 123, 66, 125>>}                       \* {0s}{B}

\* the data of the inputs: every byte string of up to MaxData bytes of
\* three values, the data of the tests (test_interp.py:14, 23, 35, 46), and
\* integers above 2^31
InterpData ==
    UNION {[1..n -> {0, 42, 255}] : n \in 0..MaxData}
    \cup {<<42, 0, 0, 0, 43, 0, 0, 0>>,
          <<42, 0, 0, 0, 43, 0, 0, 0, 44, 0, 0, 0, 45, 0, 0, 0>>,
          <<255, 255, 255, 255, 0, 0, 0, 128>>,
          <<0, 202, 154, 59, 16, 39, 0, 0>>}

\* a unit before __init__ has run, with the arguments of its construction
\* and the data its process() will be called on; at_pass is the length of
\* the remaining data when the current pass over the parts began
NewInterp(format, as_chunks, data) ==
    [pc |-> "new", error |-> "none", format |-> format, as_chunks |-> as_chunks,
     format_parts |-> <<>>, input |-> data, data |-> <<>>, out |-> <<>>,
     part |-> 0, at_pass |-> 0, yielded |-> <<>>]

InterpInputs ==
    {NewInterp(f, c, d) : f \in InterpFormats, c \in BOOLEAN, d \in InterpData}

\* no unit is made yet
InterpInit ==
    /\ MsiIdle
    /\ packbits = NoUnit
    /\ interp = NoUnit

\* interp(format, as_chunks) is called, and data is at hand for process()
InterpCall ==
    /\ interp = NoUnit
    /\ interp' \in InterpInputs
    /\ UNCHANGED <<msivars, packbits>>

\* interp.py:40-48 the parts of each format of the inputs
FormatParts == [f \in InterpFormats |-> FormatPartsFrom(f, 1)]

\* interp.py:36-48 __init__
InterpNew ==
    /\ interp.pc = "new"
    /\ interp' = [interp EXCEPT !.pc = "ready",
                                !.format_parts = FormatParts[interp.format]]
    /\ UNCHANGED <<msivars, packbits>>

\* interp.py:50-52 process(data) is entered
InterpEnter ==
    /\ interp.pc = "ready"
    /\ interp' = [interp EXCEPT !.pc = "while", !.data = interp.input, !.out = <<>>]
    /\ UNCHANGED <<msivars, packbits>>

\* no part takes a byte off the data: the parts are separators and fields
\* of no bytes
TakesNothing(parts) ==
    \A k \in 1..Len(parts) :
        \/ parts[k].kind = "separator"
        \/ IsStructFormat(parts[k].s) /\ StructFormat(parts[k].s).size = 0

\* interp.py:53, 62-63 the test of the while loop: a pass over the parts
\* begins, or the loop ends: with as_chunks process() returns, without it
\* yields the output of all passes (line 63) and is suspended there. The
\* passes of parts that take nothing never end; MaxYield of them are
\* followed, by the chunks yielded with as_chunks and by the length of the
\* output without.
InterpWhile ==
    /\ interp.pc = "while"
    /\ TakesNothing(interp.format_parts)
       => Len(interp.yielded) < MaxYield /\ Len(interp.out) < 3 * MaxYield
    /\ interp' =
         IF interp.data # <<>>
         THEN [interp EXCEPT !.pc = "for", !.part = 1, !.at_pass = Len(interp.data)]
         ELSE IF interp.as_chunks THEN [interp EXCEPT !.pc = "done"]
         ELSE [interp EXCEPT !.pc = "final", !.yielded = Append(interp.yielded, interp.out)]
    /\ UNCHANGED <<msivars, packbits>>

\* interp.py:54-59 one turn of the for loop: the next part eats, or the
\* parts are through and the pass ends; with as_chunks its chunk is yielded
\* (line 59) and process() is suspended there, out still holding the chunk
InterpFor ==
    /\ interp.pc = "for"
    /\ interp' =
         IF interp.part > Len(interp.format_parts)
         THEN IF interp.as_chunks
              THEN [interp EXCEPT !.pc = "yield",
                                  !.yielded = Append(interp.yielded, interp.out)]
              ELSE [interp EXCEPT !.pc = "while"]
         ELSE LET r == eat(interp.format_parts[interp.part], interp.data)
              IN  IF r.err # "none"
                  THEN [interp EXCEPT !.pc = "failed", !.error = r.err]
                  ELSE [interp EXCEPT !.part = interp.part + 1, !.data = r.data,
                                      !.out = interp.out \o r.tmp]
    /\ UNCHANGED <<msivars, packbits>>

\* interp.py:59-60, 63 the consumer resumes the suspended generator: after
\* the yield of a chunk out is made empty and the while loop goes on, after
\* the final yield process() returns
InterpResume ==
    /\ interp.pc \in {"yield", "final"}
    /\ interp' =
         IF interp.pc = "yield"
         THEN [interp EXCEPT !.pc = "while", !.out = <<>>]
         ELSE [interp EXCEPT !.pc = "done"]
    /\ UNCHANGED <<msivars, packbits>>

\* interp.py:59, 63 the consumer closes the suspended generator: the frame
\* ends at the yield, and line 60 does not run
InterpClose ==
    /\ interp.pc \in {"yield", "final"}
    /\ interp' = [interp EXCEPT !.pc = "closed"]
    /\ UNCHANGED <<msivars, packbits>>

InterpNext ==
    \/ InterpCall
    \/ InterpNew
    \/ InterpEnter
    \/ InterpWhile
    \/ InterpFor
    \/ InterpResume
    \/ InterpClose

InterpSpec == InterpInit /\ [][InterpNext]_vars

\* a unit called is made, and process() is a generator that whoever consumes
\* it resumes until it ends, unless they close it
FairInterpSpec ==
    InterpSpec
    /\ WF_vars(InterpNew \/ InterpEnter \/ InterpWhile \/ InterpFor \/ InterpResume)

----------------------------------------------------------------------------
(* The claims about the decoding of rows                                   *)

\* a table row is being decoded: row, and the cells of values decoded so far
InRow == site = "table" /\ pc \in {"cell", "entry"}

\* the attributes of the column with 1-based position j of the current table
ColAttr(j) == tables[tbl].cols[j].attributes

\* the column is typed Long, resp. Short, by its attribute bits
IsLongCol(a) == (a \div 256) % 16 < 8 /\ a % 4096 = 260
IsShortCol(a) == (a \div 256) % 16 < 8 /\ a % 4096 = 1282

\* the stored u32 (v + 0x80000000) mod 2^32 of a value v, as halves
StoredLong(v) == [lo |-> v % 65536, hi |-> ((v \div 65536) + 32768) % 65536]

\* values of the range [-(2^31-1), 2^31-1]: its ends, zero, and the values
\* around the carries between the halves
RoundTripValues ==
    {-2147483647, -2147483646, -65537, -65536, -65535, -32768, -1, 0, 1,
     32767, 32768, 65535, 65536, 65537, 2147483646, 2147483647}

\* C1: a Long cell decodes to 0 when the stored u32 is 0 and to
\* stored - 0x80000000 otherwise, a Short cell likewise on a u16 with bias
\* 0x8000; so the stored value (v + 0x80000000) mod 2^32 of every v in
\* [-(2^31-1), 2^31-1] decodes to v.
C1_BiasDecoding ==
    /\ InRow =>
         \A j \in 1..Len(values) :
            /\ IsLongCol(ColAttr(j)) =>
                 /\ values[j].tag = "int"
                 /\ IF row[j].lo = 0 /\ row[j].hi = 0
                    THEN values[j].int = 0
                    ELSE StoredLong(values[j].int) = row[j]
            /\ IsShortCol(ColAttr(j)) =>
                 /\ values[j].tag = "int"
                 /\ row[j].hi = 0
                 /\ IF row[j].lo = 0
                    THEN values[j].int = 0
                    ELSE values[j].int + 32768 = row[j].lo
    /\ \A v \in RoundTripValues : LongValue(StoredLong(v)) = v

\* a row holds a Long cell stored as 0xFFFFFFFF, decoded to 2^31-1, and a
\* Short cell stored as 0x7FFF, decoded to -1
C1_Witness ==
    /\ InRow
    /\ \E j \in 1..Len(values) :
          /\ IsLongCol(ColAttr(j))
          /\ row[j] = [lo |-> 65535, hi |-> 65535]
          /\ values[j] = IntVal(2147483647)
    /\ \E j \in 1..Len(values) :
          /\ IsShortCol(ColAttr(j))
          /\ row[j].lo = 32767
          /\ values[j] = IntVal(-1)

\* width in bytes of the column with attributes a
ColWidth(a) == IF IsLongCol(a) THEN 4 ELSE 2

RECURSIVE WidthBefore(_, _)
\* w_1 + ... + w_(j-1) over the columns cols
WidthBefore(cols, j) ==
    IF j <= 1 THEN 0 ELSE WidthBefore(cols, j - 1) + ColWidth(cols[j - 1].attributes)

\* the little-endian integer of w bytes at byte offset o of data, as halves
IntAt(data, o, w) ==
    [lo |-> data[o + 1] + 256 * data[o + 2],
     hi |-> IF w = 4 THEN data[o + 3] + 256 * data[o + 4] ELSE 0]

\* C2: rows are decoded column-major. With k columns and n = row_count
\* rows, the cell of row i and column j is the i-th element of the j-th
\* array of n integers, which starts at byte n * (w_1 + ... + w_(j-1)); all
\* k arrays have been read when a row is produced, and no row is produced
\* while they are read. The array a column gets depends on its position in
\* the declared order alone, so exchanging two columns exchanges their arrays.
C2_ColumnMajor ==
    /\ (site = "table" /\ pc = "arrays") => (gen.i = -1 /\ processed = <<>>)
    /\ InRow =>
         LET cols == tables[tbl].cols
             k    == Len(cols)
             n    == Len(gen.data) \div WidthBefore(cols, k + 1)
         IN  /\ Len(gen.columns) = k
             /\ Len(row) = k
             /\ gen.row_count = n
             /\ \A j \in 1..k :
                   /\ Len(gen.columns[j]) = n
                   /\ row[j] = IntAt(gen.data,
                                     n * WidthBefore(cols, j) + gen.i * ColWidth(cols[j].attributes),
                                     ColWidth(cols[j].attributes))

\* the second row of a table of two columns of different widths whose
\* two rows differ
C2_Witness ==
    /\ InRow
    /\ gen.row_count = 2
    /\ gen.i = 1
    /\ Len(row) = 2
    /\ ColWidth(ColAttr(1)) # ColWidth(ColAttr(2))
    /\ gen.columns[1][1] # gen.columns[1][2]
    /\ gen.columns[2][1] # gen.columns[2][2]

\* C3: a cell of a column that is neither Long nor Short, with raw value r:
\* if 1 <= r <= len(pool) its value is the pool string at r and the computed
\* count of that entry goes up by one; otherwise its value is the empty
\* string if the column is non-integer and r itself if it is integer, and no
\* count changes.
C3_StringCells ==
    [][(pc = "cell" /\ pc' \in {"cell", "entry"} /\ Len(values') = Len(values) + 1) =>
         LET j == Len(values')
             a == ColAttr(j)
             r == row[j].lo
         IN  (~IsLongCol(a) /\ ~IsShortCol(a)) =>
               IF 1 <= r /\ r <= Len(strings)
               THEN /\ values'[j] = StrVal(Decode(codec(codepage), strings[r]))
                    /\ computed_ref_count' = [computed_ref_count EXCEPT ![r] = @ + 1]
               ELSE /\ computed_ref_count' = computed_ref_count
                    /\ IF (a \div 256) % 16 >= 8
                       THEN values'[j] = StrVal(<<>>)
                       ELSE values'[j] = IntVal(r)]_vars

\* a row with a cell that is a pool string, now counted twice, after a row
\* with a cell of an integer column that kept its raw value 8
C3_Witness ==
    /\ InRow
    /\ \E j \in 1..Len(values) :
          /\ ~IsLongCol(ColAttr(j)) /\ ~IsShortCol(ColAttr(j))
          /\ row[j].lo = 4
          /\ values[j] = StrVal(alpha)
          /\ computed_ref_count[4] = 2
    /\ \E e \in 1..Len(processed) : \E j \in 1..Len(processed[e]) :
          /\ ColAttr(j) = 768
          /\ processed[e][j].value = IntVal(8)

\* C4: every call of ref() made by unpack, while it decodes _Columns,
\* _Tables and the table rows, has its index in [1, len(pool)].
C4_RefsInRange ==
    \A k \in 1..Len(calls) :
        calls[k].op = "ref" => (1 <= calls[k].index /\ calls[k].index <= Len(strings))

\* the columns of the table called name
ColsOf(name) == tables[CHOOSE k \in 1..Len(tables) : tables[k].name = name].cols

\* C5: a table stream of length L with row width W yields floor(L / W)
\* rows and the result of the table holds that many records, each with the
\* cells of all columns; the bytes after the last whole row raise no error: no
\* read of stream_to_rows runs past the end of the data.
C5_RowCount ==
    /\ \A e \in 1..Len(processed_table_data) :
          LET name == processed_table_data[e].name
              rows == processed_table_data[e].rows
              W    == WidthBefore(ColsOf(name), Len(ColsOf(name)) + 1)
          IN  /\ Len(rows) = Len(input[Bang(name)]) \div W
              /\ \A r \in 1..Len(rows) :
                    /\ Len(rows[r]) >= Len(ColsOf(name))
                    /\ \A j \in 1..Len(ColsOf(name)) : rows[r][j].key = ColsOf(name)[j].name
    /\ site = "table" =>
          LET W == WidthBefore(tables[tbl].cols, Len(tables[tbl].cols) + 1)
          IN  /\ gen.row_count = Len(gen.data) \div W
              /\ gen.i < gen.row_count
              /\ gen.pos <= gen.row_count * W
              /\ Len(processed) \in {gen.i, gen.i + 1}
              /\ pc = "rows" => Len(processed) = gen.i + 1
    /\ error = "EOFError" => site = "none"

\* a table whose stream ends in a part of a record has been decoded to the
\* end and has at least two records
C5_Witness ==
    \E e \in 1..Len(processed_table_data) :
        LET name == processed_table_data[e].name
            W    == WidthBefore(ColsOf(name), Len(ColsOf(name)) + 1)
        IN  /\ Len(input[Bang(name)]) % W # 0
            /\ Len(processed_table_data[e].rows) = 2

----------------------------------------------------------------------------
(* The claims about the string pool                                        *)

\* the length field of the i-th record of the pool stream sp, i from 1
RecordSize(sp, i) == sp[4 * i + 1] + 256 * sp[4 * i + 2]

RECURSIVE SizesBefore(_, _)
\* the sum of the lengths of the records 1..i-1
SizesBefore(sp, i) ==
    IF i <= 1 THEN 0 ELSE SizesBefore(sp, i - 1) + RecordSize(sp, i - 1)

\* the text laid out at the i-th record of the stream pair of the input
RecordText(i) ==
    LET sp == input[NameStringPool]
        sd == input[NameStringData]
    IN  Decode(codec(sp[1] + 256 * sp[2]),
               [k \in 1..RecordSize(sp, i) |-> sd[SizesBefore(sp, i) + k]])

\* the bytes laid out at the i-th record are characters of the codec of the
\* pool: none of them is one of the five bytes that cp1252 leaves undefined
RecordDecodable(i) ==
    LET sp == input[NameStringPool]
        sd == input[NameStringData]
    IN  sp[1] + 256 * sp[2] = 1252 =>
            \A k \in 1..RecordSize(sp, i) :
                sd[SizesBefore(sp, i) + k] \notin {129, 141, 143, 144, 157}

\* the last step was the call ref(index, ...)
RefCalled == pc = "ready" /\ calls # <<>> /\ calls[1].op = "ref"

\* C6: the pool has one entry per record of the pool stream, and ref(i) for
\* i in [1, len(pool)] returns the decoding of the bytes of the i-th record:
\* the slice of the string data that starts at the sum of the lengths of
\* the records before it and has its length. Bytes that are no characters
\* of the codec have no decoding: ref raises UnicodeDecodeError on them.
C6_RefReturnsRecord ==
    /\ pc = "ready" => 4 * Len(strings) + 4 = Len(input[NameStringPool])
    /\ (RefCalled /\ 1 <= calls[1].index /\ calls[1].index <= Len(strings)) =>
          IF RecordDecodable(calls[1].index)
          THEN /\ ret.kind = "str"
               /\ ret.text = RecordText(calls[1].index)
          ELSE /\ ret.kind = "raise"
               /\ ret.exc = "UnicodeDecodeError"

\* ref(2) returned a text of two characters that starts after a first
\* record of one byte
C6_Witness ==
    /\ RefCalled
    /\ calls[1].index = 2
    /\ ret.kind = "str"
    /\ Len(ret.text) = 2
    /\ RecordSize(input[NameStringPool], 1) = 1

\* C7: a computed count changes only by a successful ref(i) with increment,
\* which adds 1 to entry i and changes no other computed count; the provided
\* counts never change; __contains__ and ref(i, increment=False) change none.
C7_CountFrame ==
    [][pc = "ready" =>
         /\ provided_ref_count' = provided_ref_count
         /\ Len(computed_ref_count') = Len(computed_ref_count)
         /\ \A i \in 1..Len(computed_ref_count) :
               computed_ref_count'[i] # computed_ref_count[i] =>
                  /\ calls' = <<[op |-> "ref", index |-> i, increment |-> TRUE]>>
                  /\ ret'.kind = "str"
                  /\ computed_ref_count'[i] = computed_ref_count[i] + 1
         /\ (calls' # <<>> /\ calls'[1].op = "ref" /\ calls'[1].increment
               /\ ret'.kind = "str") =>
               computed_ref_count' =
                   [computed_ref_count EXCEPT ![calls'[1].index] = @ + 1]
         /\ (calls' # <<>> /\ (calls'[1].op = "contains" \/ ~calls'[1].increment)) =>
               computed_ref_count' = computed_ref_count]_vars

\* C8: ref(index) fails with IndexError for every index outside
\* [1, len(pool)], with and without increment.
C8_IndexErrorOutside ==
    (RefCalled /\ ~(1 <= calls[1].index /\ calls[1].index <= Len(strings))) =>
        (ret.kind = "raise" /\ ret.exc = "IndexError")

----------------------------------------------------------------------------
(* The claims about the column catalog                                     *)

\* the catalog loop has run to its end
AfterCatalog ==
    /\ pc \notin {"new", "ready", "strings", "columns", "failed"}
    /\ site # "catalog"

\* the number of records of the _Columns stream of the input
CatalogCount == Len(input[NameColumns]) \div 8

\* the u16 at byte offset o of the _Columns stream of the input
CatalogWord(o) == input[NameColumns][o + 1] + 256 * input[NameColumns][o + 2]

\* field f (0..3) of record r (from 0) of the _Columns stream, the stream
\* being four arrays of CatalogCount words
CatalogField(f, r) == CatalogWord(2 * (CatalogCount * f + r))

\* the text of pool entry index
PoolText(index) == Decode(codec(codepage), strings[index])

RECURSIVE FirstSeen(_)
\* a sequence without the repetitions of its elements
FirstSeen(q) ==
    IF q = <<>> THEN <<>>
    ELSE LET front == FirstSeen(SubSeq(q, 1, Len(q) - 1))
             last  == q[Len(q)]
         IN  IF \E k \in 1..Len(front) : front[k] = last THEN front ELSE Append(front, last)

RECURSIVE ColumnNamesSeen(_, _)
\* the column names of the first n catalog records that name table t, in
\* the order of the records
ColumnNamesSeen(t, n) ==
    IF n = 0 THEN <<>>
    ELSE LET before == ColumnNamesSeen(t, n - 1)
         IN  IF PoolText(CatalogField(0, n - 1)) = t
             THEN Append(before, PoolText(CatalogField(2, n - 1)))
             ELSE before

\* the names of columns or the keys of a record, in their order
NamesOf(cols) == [j \in 1..Len(cols) |-> cols[j].name]
KeysOf(entry) == [j \in 1..Len(entry) |-> entry[j].key]

\* the keys of a record begin with the names: a derived field comes after
\* the columns
KeysBegin(entry, names) ==
    /\ Len(entry) >= Len(names)
    /\ SubSeq(KeysOf(entry), 1, Len(names)) = names

\* C9: the schema of a table lists its columns in the order in which their
\* names are first seen in the _Columns stream, not sorted by name or by
\* number; the struct layout and the keys of every record follow that order
\* (a derived field Hash or Comment comes after the columns).
C9_ColumnOrder ==
    /\ AfterCatalog =>
          \A k \in 1..Len(tables) :
              NamesOf(tables[k].cols) = FirstSeen(ColumnNamesSeen(tables[k].name, CatalogCount))
    /\ site = "table" =>
          /\ gen.fmt = [j \in 1..Len(tables[tbl].cols) |->
                            IF IsLongCol(ColAttr(j)) THEN "I" ELSE "H"]
          /\ \A e \in 1..Len(processed) :
                KeysBegin(processed[e],
                          FirstSeen(ColumnNamesSeen(tables[tbl].name, CatalogCount)))
    /\ \A e \in 1..Len(processed_table_data) :
          \A r \in 1..Len(processed_table_data[e].rows) :
              KeysBegin(processed_table_data[e].rows[r],
                        FirstSeen(ColumnNamesSeen(processed_table_data[e].name, CatalogCount)))

\* a record of a table whose first column is Name with number 2 and whose
\* second column is Id with number 1
C9_Witness ==
    /\ site = "table"
    /\ Len(processed) >= 1
    /\ Len(tables[tbl].cols) = 2
    /\ KeysOf(processed[1]) = <<Name, Id>>
    /\ tables[tbl].cols[1].number = 2
    /\ tables[tbl].cols[2].number = 1

\* a catalog record has been yielded: rec holds its four fields, gen.i its number
InCatalog == site = "catalog" /\ rec # <<>>

\* C10 as stated: the four fields of the r-th catalog record are the four
\* consecutive u16 at byte offset 8 * r of the _Columns stream.
C10_FlatRecords ==
    InCatalog => \A f \in 0..3 : rec[f + 1] = CatalogWord(8 * gen.i + 2 * f)

\* C10 amended: the _Columns stream is read column-major like a table: with
\* n = floor(len / 8) records, field f (0..3: table_name_idx, column_number,
\* column_name_idx, attributes) of the r-th record is the r-th element of
\* the f-th of four arrays of n u16, at byte offset 2 * (n * f + r).
C10_ColumnMajorRecords ==
    InCatalog =>
        /\ gen.row_count = CatalogCount
        /\ gen.i < CatalogCount
        /\ \A f \in 0..3 : rec[f + 1] = CatalogField(f, gen.i)

\* the second of three records has been read, and it is not the four words
\* at byte offset 8
C10_Witness ==
    /\ InCatalog
    /\ gen.row_count = 3
    /\ gen.i = 1
    /\ \E f \in 0..3 : rec[f + 1] # CatalogWord(8 + 2 * f)

----------------------------------------------------------------------------
(* The claims about the derived fields and artifacts                       *)

\* the rows of the table named by stream_name are being decoded
InTable(stream_name) == site = "table" /\ Bang(tables[tbl].name) = stream_name

\* the record of the row held by row has been appended to processed
RowAppended == pc = "rows" /\ gen.i >= 0 /\ processed # <<>>

\* the value of a lowercase hex digit, 16 for any other character
HexValue(c) ==
    IF c >= 48 /\ c <= 57 THEN c - 48
    ELSE IF c >= 97 /\ c <= 102 THEN c - 87
    ELSE 16

\* the n-th byte (from 1) written by a hex text
HexByte(text, n) == 16 * HexValue(text[2 * n - 1]) + HexValue(text[2 * n])

\* a stored u32 with its top bit flipped
FlipTop(raw) == [lo |-> raw.lo, hi |-> IF raw.hi >= 32768 THEN raw.hi - 32768 ELSE raw.hi + 32768]

\* the field of a record
Field(entry, key) == entry[EntryIndex(entry, key)].value

\* C11: every record of the MsiFileHash table has a field Hash; it is a text
\* of 32 lowercase hex digits, and its bytes 4k+1..4k+4 (k = 0..3) are the
\* little-endian u32 that is the raw stored value of column 2+k (0-indexed)
\* XORed with 0x80000000; XORing a stored value twice gives it back.
C11_FileHash ==
    /\ InTable(NameMsiFileHash) =>
           \A e \in 1..Len(processed) :
               /\ EntryIndex(processed[e], KeyHash) # 0
               /\ Field(processed[e], KeyHash).tag = "str"
               /\ Len(Field(processed[e], KeyHash).str) = 32
               /\ \A n \in 1..32 : HexValue(Field(processed[e], KeyHash).str[n]) < 16
    /\ InTable(NameMsiFileHash) /\ RowAppended =>
           LET hash == Field(processed[Len(processed)], KeyHash).str
           IN  \A k \in 0..3 :
                   /\ HexByte(hash, 4 * k + 1) + 256 * HexByte(hash, 4 * k + 2)
                          = FlipTop(row[k + 3]).lo
                   /\ HexByte(hash, 4 * k + 3) + 256 * HexByte(hash, 4 * k + 4)
                          = FlipTop(row[k + 3]).hi
                   /\ XorBias(XorBias(row[k + 3])) = row[k + 3]
    /\ \A t \in 1..Len(processed_table_data) :
           Bang(processed_table_data[t].name) = NameMsiFileHash =>
               \A e \in 1..Len(processed_table_data[t].rows) :
                   EntryIndex(processed_table_data[t].rows[e], KeyHash) # 0

\* the second record of a MsiFileHash table has got its Hash, from stored
\* values with the top bit set and with the top bit clear and with hex
\* digits that are letters
C11_Witness ==
    /\ InTable(NameMsiFileHash)
    /\ RowAppended
    /\ Len(processed) = 2
    /\ \E k \in 3..6 : row[k].hi >= 32768
    /\ \E k \in 3..6 : row[k].hi < 32768
    /\ \E n \in 1..32 : Field(processed[2], KeyHash).str[n] >= 97

\* the codes that msi.py:135-153 describes
KnownCodes == {1, 2, 5, 6, 17, 18, 19, 21, 22, 34, 35, 37, 38, 50, 51, 53, 54}

\* the last record of processed after the step
NewRecord == processed'[Len(processed')]

\* C12: in the step that finishes a CustomAction row, with code the stored
\* value of column 1 modulo 64 (its low six bits), the record of the row is
\* appended; it has a field Comment exactly when code is one of the known
\* codes, and Comment is then the description of code in the type table;
\* with an unknown code the step raises nothing.
C12_Comment ==
    [][(pc = "entry" /\ InTable(NameCustomAction) /\ Len(row) >= 2) =>
           LET code == row[2].lo % 64
           IN  /\ Len(processed') = Len(processed) + 1
               /\ KnownCodes = DOMAIN CUSTOM_ACTION_TYPES
               /\ (EntryIndex(NewRecord, KeyComment) # 0) <=> (code \in KnownCodes)
               /\ code \in KnownCodes =>
                      Field(NewRecord, KeyComment) = StrVal(CUSTOM_ACTION_TYPES[code])
               /\ code \notin KnownCodes =>
                      /\ error' = "none"
                      /\ pc' = "rows"
                      /\ KeysOf(NewRecord) = NamesOf(tables[tbl].cols)]_vars

\* two records of a CustomAction table: the first of a row with the unknown
\* code 0x3F and without Comment, the second of a row whose type 0x8065 has
\* a bit above the mask, with the Comment of code 0x25
C12_Witness ==
    /\ InTable(NameCustomAction)
    /\ RowAppended
    /\ Len(processed) = 2
    /\ EntryIndex(processed[1], KeyComment) = 0
    /\ row[2].lo = 32869
    /\ EntryIndex(processed[2], KeyComment) # 0
    /\ Field(processed[2], KeyComment) = StrVal(CUSTOM_ACTION_TYPES[37])

\* the position of the column called key in the current table, 0 if none
ColumnOf(key) ==
    IF \E j \in 1..Len(tables[tbl].cols) : tables[tbl].cols[j].name = key
    THEN CHOOSE j \in 1..Len(tables[tbl].cols) : tables[tbl].cols[j].name = key
    ELSE 0

\* the column holds integers by its attribute bits 0x0F00
IntegerTyped(a) == (a \div 256) % 16 < 8

\* a CustomAction row with a type column has been decoded and is finished
\* by the next step
AtAction == pc = "entry" /\ InTable(NameCustomAction) /\ Len(row) >= 2

\* the code of that row
RowCode == row[2].lo % 64

\* the step adds or replaces the stream at path with data and nothing else
Emits(path, data) ==
    /\ DOMAIN streams' = DOMAIN streams \cup {path}
    /\ streams'[path] = data
    /\ \A k \in DOMAIN streams \ {path} : streams'[k] = streams[k]

\* a text of ASCII characters
IsAscii(text) == \A k \in 1..Len(text) : text[k] < 128

\* C13: the step finishing a CustomAction row with code 0x25 (0x26) whose
\* table has the columns Action and Target, Target not integer-typed, puts
\* the stream Action/<ActionName>.js (.vbs) holding the encoded Target text
\* of the row, whole and unchanged (its very characters if it is ASCII), and
\* raises nothing; a row whose code is outside {0x25, 0x26, 0x33}, or whose
\* Target column is integer-typed, leaves the streams as they are.
C13_ScriptArtifact ==
    [][AtAction =>
           LET t == ColumnOf(KeyTarget)
               a == ColumnOf(KeyAction)
           IN  /\ (RowCode \in {37, 38} /\ t # 0 /\ a # 0 /\ ~IntegerTyped(ColAttr(t))) =>
                      /\ values[t].tag = "str"
                      /\ Emits(ActionPrefix \o ValueText(values[a])
                                   \o (IF RowCode = 37 THEN <<46, 106, 115>>
                                                       ELSE <<46, 118, 98, 115>>),
                               Encode(values[t].str))
                      /\ IsAscii(values[t].str) =>
                             \E p \in DOMAIN streams' : streams'[p] = values[t].str
                      /\ error' = "none"
               /\ (RowCode \notin {37, 38, 51} \/ (t # 0 /\ IntegerTyped(ColAttr(t)))) =>
                      /\ streams' = streams
                      /\ order' = order]_vars

\* the JScript row of action 'a' with the target 'x=1' has put Action/a.js:
\* the streams hold it with the target text
C13_Witness ==
    /\ InTable(NameCustomAction)
    /\ RowAppended
    /\ row[2].lo % 64 = 37
    /\ values[ColumnOf(KeyTarget)] = StrVal(<<120, 61, 49>>)
    /\ <<65, 99, 116, 105, 111, 110, 47, 97, 46, 106, 115>> \in DOMAIN streams
    /\ streams[<<65, 99, 116, 105, 111, 110, 47, 97, 46, 106, 115>>] = <<120, 61, 49>>

RECURSIVE UnescapeAny(_)
\* text with every '[', '\', c, ']' replaced by c, from left to right, for
\* any character c
UnescapeAny(text) ==
    IF text = <<>> THEN <<>>
    ELSE IF Len(text) >= 4 /\ text[1] = 91 /\ text[2] = 92 /\ text[4] = 93
         THEN <<text[3]>> \o UnescapeAny(SubSeq(text, 5, Len(text)))
         ELSE <<text[1]>> \o UnescapeAny(Tail(text))

\* the positions of the characters \x01..\x05 of a text
ControlAt(text) == {k \in 1..Len(text) : text[k] \in 1..5}

\* the part of a text after its last character in \x01..\x05
AfterControl(text) ==
    SubSeq(text, (CHOOSE k \in ControlAt(text) : \A j \in ControlAt(text) : j <= k) + 1,
           Len(text))

\* C14 as stated: the step finishing a CustomAction row with code 0x33 and
\* Target text t (columns Action and Target, Target not integer-typed) leaves
\* the streams alone if t has no character in \x01..\x05; otherwise it puts
\* the stream Action/<ActionName>, without extension, holding the part of t
\* after the last such character with every escape sequence '[\c]' replaced
\* by the character c; the target "\x01\x02Hello[\1]" gives "Hello1".
C14_PropertyArtifact ==
    [][(/\ AtAction
        /\ RowCode = 51
        /\ ColumnOf(KeyTarget) # 0
        /\ ColumnOf(KeyAction) # 0
        /\ ~IntegerTyped(ColAttr(ColumnOf(KeyTarget)))) =>
           LET t    == values[ColumnOf(KeyTarget)].str
               path == ActionPrefix \o ValueText(values[ColumnOf(KeyAction)])
           IN  /\ ControlAt(t) = {} => streams' = streams
               /\ ControlAt(t) # {} => Emits(path, Encode(UnescapeAny(AfterControl(t))))
               /\ t = <<1, 2, 72, 101, 108, 108, 111, 91, 92, 49, 93>> =>
                      streams'[path] = <<72, 101, 108, 108, 111, 49>>]_vars

\* C15 as stated: a failure in the derived-field and artifact extraction of
\* a row does not abort decoding: the step that finishes a row of a table
\* never ends the run with an exception, whatever the columns of the table
\* (a CustomAction table without Target or Action column, a MsiFileHash table
\* with fewer than six columns); the run goes on with the rows that follow.
C15_RowFailureIsolated ==
    [][(pc = "entry" /\ site = "table") => (pc' = "rows" /\ error' = "none")]_vars

----------------------------------------------------------------------------
(* The claims about absent streams and diagnostics                         *)

\* the streams unpack cannot do without
MandatoryStreams == {NameStringData, NameStringPool, NameColumns, NameTables}

\* C16: when one of '!_StringData', '!_StringPool', '!_Columns', '!_Tables'
\* is absent from the input, the run never gets past the statement that
\* reads it: it never reaches the tables, the consistency check or the
\* output, nothing is ever yielded, no JSON document is made, and the run
\* has failed with the KeyError of the absent stream once the streams
\* before it have been read.
C16_MandatoryStreams ==
    (\E name \in MandatoryStreams : name \notin DOMAIN input) =>
        /\ out = <<>>
        /\ NameJson \notin DOMAIN streams
        /\ processed_table_data = <<>>
        /\ pc \in {"strings", "columns", "arrays", "rows", "failed"}
        /\ pc = "rows" => (site = "catalog" /\ NameTables \notin DOMAIN input)
        /\ pc \in {"columns", "arrays"} =>
               {NameStringData, NameStringPool} \subseteq DOMAIN input
        /\ pc = "arrays" => NameColumns \in DOMAIN input
        /\ pc = "failed" => error = "KeyError"

\* '!_Tables' is absent: the pool and the catalog have been read, and the
\* run has failed with nothing yielded
C16_Witness ==
    /\ NameTables \notin DOMAIN input
    /\ pc = "failed"
    /\ error = "KeyError"
    /\ strings # <<>>
    /\ tables # <<>>
    /\ out = <<>>

\* the table loop has ended without an exception
TablesDecoded == pc \in {"ignored", "check", "assemble", "yield", "done"}

\* the tables of the catalog that have a stream in the input, in the order
\* of the catalog
TablesWithStream == SelectSeq(tables, LAMBDA t : Bang(t.name) \in DOMAIN input)

\* C17: when the table loop comes to a table of the catalog for which the
\* input has no stream '!<TableName>', the step raises nothing, makes no
\* call of the string pool, changes no count and no decoded table, and goes
\* on with the next table; and after the loop the decoded table mapping has
\* an entry for exactly the tables that have a stream, in catalog order,
\* each with as many records as its stream holds rows.
C17_SkippedTable ==
    /\ [][(/\ pc = "table"
           /\ tbl <= Len(tables)
           /\ Bang(tables[tbl].name) \notin DOMAIN input) =>
              /\ pc' = "table"
              /\ tbl' = tbl + 1
              /\ error' = "none"
              /\ calls' = <<>>
              /\ computed_ref_count' = computed_ref_count
              /\ processed_table_data' = processed_table_data
              /\ streams' = streams]_vars
    /\ [](TablesDecoded =>
              /\ Len(processed_table_data) = Len(TablesWithStream)
              /\ \A t \in 1..Len(TablesWithStream) :
                     /\ processed_table_data[t].name = TablesWithStream[t].name
                     /\ Len(processed_table_data[t].rows)
                            = Len(input[Bang(TablesWithStream[t].name)])
                                  \div calcsize(column_formats(TablesWithStream[t].cols)))

\* Foo and Bar are in the catalog and only Bar has a stream: the run has
\* ended, and the decoded tables are Bar alone with its six records
C17_Witness ==
    /\ pc = "done"
    /\ Len(tables) = 2
    /\ tables[1].name = Foo
    /\ Bang(Foo) \notin DOMAIN input
    /\ Len(processed_table_data) = 1
    /\ processed_table_data[1].name = Bar
    /\ Len(processed_table_data[1].rows) = 6

\* the table names of the catalog and the names listed by '!_Tables', read
\* from the streams of the input
CatalogNames == {PoolText(CatalogField(0, r)) : r \in 0..(CatalogCount - 1)}
ListedNames ==
    {PoolText(input[NameTables][2 * k - 1] + 256 * input[NameTables][2 * k]) :
        k \in 1..(Len(input[NameTables]) \div 2)}

\* the reconciliation is over and the run goes on
Reconciled ==
    \/ pc \in {"table", "cell", "entry"}
    \/ pc \in {"arrays", "rows"} /\ site = "table"
    \/ TablesDecoded

\* the names of the diagnostics of a kind that were logged
Diagnosed(kind) == {m.name : m \in {d \in DOMAIN log : d.kind = kind}}

\* C18: the reconciliation step raises nothing and leads on to the table
\* loop; from then on the log holds a 'known but not given' diagnostic
\* exactly for the names of (catalog tables minus listed names) and a 'given
\* but not known' diagnostic exactly for the names of (listed names minus
\* catalog tables), each exactly once.
C18_Reconciliation ==
    /\ [][pc = "reconcile" => (pc' = "table" /\ error' = "none")]_vars
    /\ [](Reconciled =>
              /\ Diagnosed("known but not given") = CatalogNames \ ListedNames
              /\ Diagnosed("given but not known") = ListedNames \ CatalogNames
              /\ \A m \in DOMAIN log :
                     m.kind \in {"known but not given", "given but not known"} => log[m] = 1)

\* '!_Tables' lists Foo and Bar, the catalog has Foo alone: the run has ended
\* with the one diagnostic 'given but not known: Bar', the two rows of Foo
\* decoded and the JSON document yielded
C18_Witness ==
    /\ pc = "done"
    /\ CatalogNames = {Foo}
    /\ ListedNames = {Foo, Bar}
    /\ Diagnosed("given but not known") = {Bar}
    /\ log[[kind |-> "given but not known", name |-> Bar]] = 1
    /\ Diagnosed("known but not given") = {}
    /\ Len(processed_table_data) = 1
    /\ Len(processed_table_data[1].rows) = 2
    /\ \E k \in 1..Len(out) : out[k].path = NameJson

----------------------------------------------------------------------------
(* The claims about the reference counts                                   *)

\* the pool entries whose provided and computed counts differ
Differing == {k \in 1..Len(strings) : computed_ref_count[k] # provided_ref_count[k]}

\* the aggregate counts that were reported, as texts
Reported == Diagnosed("incorrect string reference counts")

\* C19 as stated: the consistency check never raises, and the aggregate
\* count it reports is the number of pool entries whose provided and
\* computed counts differ, at every log level (whether or not log_debug
\* emits the messages of the entries): the count is reported once when it is
\* not zero, and nothing is reported when no entry differs.
C19_ConsistencyCheck ==
    /\ [][pc = "check" => (pc' = "assemble" /\ error' = "none")]_vars
    /\ [](pc \in {"assemble", "yield", "done"} =>
              /\ inconsistencies = Cardinality(Differing)
              /\ Differing = {} => Reported = {}
              /\ Differing # {} =>
                     /\ Reported = {IntText(Cardinality(Differing))}
                     /\ log[InfoMessage(Cardinality(Differing))] = 1)

\* the paths and contents that a run yielded, as a set
Artifacts(results) == {results[k] : k \in 1..Len(results)}

\* the second of two runs has ended; the first one is kept in prev
SecondRunEnded == prev.run = 1 /\ pc \in {"done", "failed"}

\* C20 as stated: of two runs of unpack on inputs that differ in provided
\* reference counts of the pool records only, the second ends as the first:
\* with the same decoded tables and the same set of yielded artifacts, and
\* without an exception where the first had none.
C20_CountsNeverGate ==
    SecondRunEnded =>
        /\ processed_table_data = prev.tables
        /\ Artifacts(out) = Artifacts(prev.out)
        /\ error = prev.error

----------------------------------------------------------------------------
(* The claim about the initial reference counts                            *)

\* the provided_ref_count field of the i-th record of the pool stream sp
RecordCount(sp, i) == sp[4 * i + 3] + 256 * sp[4 * i + 4]

\* the step is the construction of the pool, and it succeeded
Loaded == pc = "new" /\ pc' = "ready"

\* the step is a successful ref(i) with increment enabled
Referenced(i) ==
    /\ pc = "ready"
    /\ calls' = <<[op |-> "ref", index |-> i, increment |-> TRUE]>>
    /\ ret'.kind = "str"

\* C21 as stated: right after the pool is loaded the count that ref()
\* increments equals, for every entry, the provided value of the entry's
\* pool record, and a successful ref() with increment adds exactly 1 to it.
C21_StartAtProvided ==
    [][/\ Loaded =>
            /\ Len(computed_ref_count') = Len(strings')
            /\ \A i \in 1..Len(strings') :
                  computed_ref_count'[i] = RecordCount(input[NameStringPool], i)
       /\ \A i \in 1..Len(strings) :
             Referenced(i) => computed_ref_count'[i] = computed_ref_count[i] + 1]_vars

\* C21: right after the pool is loaded the count that ref() increments is 0
\* for every entry, whatever the entry's pool record provides; the provided
\* value is kept apart, in provided_ref_count, equal to the field of the
\* record, and never changes afterwards; a successful ref() with increment
\* adds exactly 1 to the computed count of its entry.
C21_StartAtZero ==
    [][/\ pc = "ready" => provided_ref_count' = provided_ref_count
       /\ Loaded =>
            /\ Len(computed_ref_count') = Len(strings')
            /\ Len(provided_ref_count') = Len(strings')
            /\ \A i \in 1..Len(strings') :
                  /\ computed_ref_count'[i] = 0
                  /\ provided_ref_count'[i] = RecordCount(input[NameStringPool], i)
       /\ \A i \in 1..Len(strings) :
             Referenced(i) => computed_ref_count'[i] = computed_ref_count[i] + 1]_vars

\* a pool whose first record provides the count 1 has been loaded and its
\* first entry referenced once since: the count that ref() increments is 1
C21_Witness ==
    /\ RefCalled
    /\ calls[1] = [op |-> "ref", index |-> 1, increment |-> TRUE]
    /\ ret.kind = "str"
    /\ RecordCount(input[NameStringPool], 1) = 1
    /\ provided_ref_count[1] = 1
    /\ computed_ref_count[1] = 1

----------------------------------------------------------------------------
(* The claims about the output                                             *)

\* the streams of the input that unpack takes for itself: the string pool,
\* the catalog, the table list and the stream of every table of the catalog
Consumed ==
    {NameStringData, NameStringPool, NameColumns, NameTables}
    \cup {Bang(n) : n \in CatalogNames}

\* the paths of the other streams of the input
Leftover == DOMAIN input \ Consumed

\* the four names that are never passed on
Dropped == {LeftoverPaths[k] : k \in 1..4}

\* the path under which a stream with the path p is passed on: p, but with
\* '/' for its first dot when 'binary', in any case, is all that is before it
ExpectedPath(p) ==
    IF /\ Len(p) >= 7
       /\ p[7] = 46
       /\ \A k \in 1..6 : p[k] = Binary[k] \/ p[k] = Binary[k] - 32
    THEN [p EXCEPT ![7] = 47]
    ELSE p

\* the path is that of an artifact of a CustomAction row
IsActionPath(p) == Len(p) >= 7 /\ SubSeq(p, 1, 7) = ActionPrefix

\* the paths yielded
OutPaths == {out[k].path : k \in 1..Len(out)}

\* nothing else is written to the path under which p is passed on
Unrivalled(p) ==
    /\ ExpectedPath(p) # NameJson
    /\ ~IsActionPath(p)
    /\ \A q \in Leftover \ Dropped : q # p => ExpectedPath(q) # ExpectedPath(p)

\* C22: when unpack has ended, none of the four ignored names is among the
\* paths yielded, and every other leftover stream of the input has its path
\* among them: its own path, or, when 'binary' in any case is what stands
\* before the first dot, the path with that dot replaced by '/', prefix and
\* rest as they were; the result holds the bytes of the stream unless
\* something else is written to the same path.
C22_LeftoverStreams ==
    pc = "done" =>
        \A p \in Leftover :
            IF p \in Dropped
            THEN p \notin OutPaths
            ELSE \E k \in 1..Len(out) :
                     /\ out[k].path = ExpectedPath(p)
                     /\ Unrivalled(p) => out[k].data = input[p]

\* the input held '[5]DigitalSignature' and 'BINARY.x.y': the run has ended
\* and yielded the second as 'BINARY/x.y' with its byte, and not the first
C22_Witness ==
    /\ pc = "done"
    /\ LeftoverPaths[3] \in DOMAIN input
    /\ LeftoverPaths[7] \in DOMAIN input
    /\ LeftoverPaths[3] \notin OutPaths
    /\ \E k \in 1..Len(out) :
           /\ out[k].path = <<66, 73, 78, 65, 82, 89, 47, 120, 46, 121>>
           /\ out[k].data = <<7>>

\* the place of the path q in the key order of the streams
PlaceOf(q) == CHOOSE i \in 1..Len(order) : order[i] = q

\* the last stream, in the order of the dict, that comes to the path p
LastComingTo(p) ==
    CHOOSE q \in DOMAIN streams :
        /\ ExpectedPath(q) = p
        /\ \A r \in DOMAIN streams : ExpectedPath(r) = p => PlaceOf(r) <= PlaceOf(q)

\* C23: every write to a path replaces what the path held, and nothing but
\* a write changes it. The step finishing a row writes at most one path, an
\* artifact path, and for a script row (code 0x25, 0x26) the path holds the
\* target of that row afterwards, whether or not a stream of the input or
\* the artifact of an earlier row was there. The step assembling the output
\* puts the JSON document at 'MsiTables.json' whether or not a stream of
\* that name exists, and every other path holds the stream that comes to it
\* last. No other step adds a path or changes the bytes at one. The results
\* yielded have pairwise different paths, and at the end they are the
\* assembled streams, one result for each path.
C23_LastWriterWins ==
    /\ [][/\ pc = "entry" =>
               \/ streams' = streams
               \/ \E p \in DOMAIN streams' :
                      /\ IsActionPath(p)
                      /\ Emits(p, streams'[p])
                      /\ (AtAction /\ RowCode \in {37, 38}) =>
                             streams'[p] = Encode(values[ColumnOf(KeyTarget)].str)
          /\ pc = "assemble" =>
               /\ NameJson \in DOMAIN streams'
               /\ streams'[NameJson] = Encode(JsonDumps(processed_table_data))
               /\ DOMAIN streams' = {NameJson} \cup {ExpectedPath(q) : q \in DOMAIN streams}
               /\ \A p \in DOMAIN streams' \ {NameJson} :
                      streams'[p] = streams[LastComingTo(p)]
          /\ pc \notin {"entry", "assemble", "done", "failed"} =>
               \A p \in DOMAIN streams' : p \in DOMAIN streams /\ streams'[p] = streams[p]
         ]_vars
    /\ [](pc \in {"yield", "done"} =>
              /\ \A j, k \in 1..Len(out) : out[j].path = out[k].path => j = k
              /\ \A k \in 1..Len(out) :
                     out[k].path \in DOMAIN streams /\ out[k].data = streams[out[k].path]
              /\ pc = "done" => OutPaths = DOMAIN streams)

\* the input held streams at 'MsiTables.json' and 'Action/a.js', and two
\* rows of table CustomAction gave an artifact for 'Action/a.js': the run has
\* ended, 'Action/a.js' was yielded once, with the target of the second row,
\* and 'MsiTables.json' once, with other bytes than the stream of the input
C23_Witness ==
    /\ pc = "done"
    /\ LeftoverPaths[11] \in DOMAIN input
    /\ LeftoverPaths[12] \in DOMAIN input
    /\ Cardinality({k \in 1..Len(out) : out[k].path = LeftoverPaths[12]}) = 1
    /\ \E k \in 1..Len(out) :
           /\ out[k].path = LeftoverPaths[12]
           /\ out[k].data = <<1, 2, 72, 101, 108, 108, 111, 91, 92, 49, 93>>
    /\ Cardinality({k \in 1..Len(out) : out[k].path = NameJson}) = 1
    /\ \E k \in 1..Len(out) :
           /\ out[k].path = NameJson
           /\ out[k].data # input[NameJson]
           /\ out[k].data = Encode(JsonDumps(processed_table_data))

----------------------------------------------------------------------------
(* The claim about the JSON document                                       *)

\* the table names of the catalog in the order of their first appearance in
\* the _Columns stream, those without a stream in the input left out
DiscoveredTables ==
    SelectSeq(FirstSeen([r \in 1..CatalogCount |-> PoolText(CatalogField(0, r - 1))]),
              LAMBDA n : Bang(n) \in DOMAIN input)

\* the results yielded under the path of the JSON document
JsonResults == {k \in 1..Len(out) : out[k].path = NameJson}

\* the positions of a text at which a line starts
LineStarts(doc) == {1} \cup {k + 1 : k \in {j \in 1..(Len(doc) - 1) : doc[j] = 10}}

\* the number of spaces at the start of the line that starts at s
IndentAt(doc, s) ==
    CHOOSE n \in 0..(Len(doc) - s) :
        /\ \A j \in 0..(n - 1) : doc[s + j] = 32
        /\ doc[s + n] # 32

\* the text between the quotation mark at i and the next one
QuotedAt(doc, i) ==
    LET close == CHOOSE j \in (i + 1)..Len(doc) :
                     doc[j] = 34 /\ \A m \in (i + 1)..(j - 1) : doc[m] # 34
    IN  SubSeq(doc, i + 1, close - 1)

\* what the line starting at s opens in a document of json.dumps(indent=4)
\* of a dict of lists of dicts: a table (a key at depth 1), a record (a brace
\* at depth 2), a key of a record (a key at depth 3), or nothing
LineEvent(doc, s) ==
    LET n == IndentAt(doc, s)
        c == doc[s + n]
    IN  IF c = 34 /\ n = 4 THEN [kind |-> "table", text |-> QuotedAt(doc, s + n)]
        ELSE IF c = 123 /\ n = 8 THEN [kind |-> "record", text |-> <<>>]
        ELSE IF c = 34 /\ n = 12 THEN [kind |-> "key", text |-> QuotedAt(doc, s + n)]
        ELSE [kind |-> "none", text |-> <<>>]

\* the tables, records and keys of a document in the order of its lines
DocEvents(doc) ==
    LET starts == Ascending(LineStarts(doc))
    IN  SelectSeq([k \in 1..Len(starts) |-> LineEvent(doc, starts[k])],
                  LAMBDA e : e.kind # "none")

\* a name as a key of the document: between its quotation marks
AsKey(name) == SubSeq(JsonStr(name), 2, Len(JsonStr(name)) - 1)

\* the tables, records and keys a document must have for the table names
\* names, the k-th table having the records with the keys keys[k]
ExpectedEvents(names, keys) ==
    Flatten([t \in 1..Len(names) |->
        <<[kind |-> "table", text |-> AsKey(names[t])]>>
        \o Flatten([r \in 1..Len(keys[t]) |->
               <<[kind |-> "record", text |-> <<>>]>>
               \o [j \in 1..Len(keys[t][r]) |-> [kind |-> "key", text |-> AsKey(keys[t][r][j])]]])])

\* the derived field that may follow the columns in a record of table name
DerivedKeys(name) ==
    IF Bang(name) = NameMsiFileHash THEN {<<KeyHash>>}
    ELSE IF Bang(name) = NameCustomAction THEN {<<>>, <<KeyComment>>}
    ELSE {<<>>}

\* C24: a run that ends without an exception has yielded exactly one result
\* under the path 'MsiTables.json'. The document lists the decoded tables,
\* which are the tables of the catalog that have a stream, in the order in
\* which their names first appear in _Columns; under each table it has one
\* record for each decoded row, and the keys of a record are the column
\* names of the table in the order of the schema (first appearance in
\* _Columns), followed by the derived field Hash in a record of MsiFileHash
\* and by the derived field Comment, if given, in a record of CustomAction.
C24_JsonDocument ==
    pc = "done" =>
        /\ Cardinality(JsonResults) = 1
        /\ [t \in 1..Len(processed_table_data) |-> processed_table_data[t].name]
               = DiscoveredTables
        /\ \A t \in 1..Len(processed_table_data) :
               \A r \in 1..Len(processed_table_data[t].rows) :
                   \E d \in DerivedKeys(processed_table_data[t].name) :
                       KeysOf(processed_table_data[t].rows[r])
                           = FirstSeen(ColumnNamesSeen(processed_table_data[t].name, CatalogCount))
                             \o d
        /\ \A k \in JsonResults :
               DocEvents(out[k].data) =
                   ExpectedEvents(DiscoveredTables,
                       [t \in 1..Len(processed_table_data) |->
                           [r \in 1..Len(processed_table_data[t].rows) |->
                               KeysOf(processed_table_data[t].rows[r])]])

\* the catalog names CustomAction before MsiFileHash and both have rows:
\* the document has been yielded with CustomAction first, a record of it
\* having Comment after its four columns and a record of MsiFileHash having
\* Hash after its six
C24_Witness ==
    /\ pc = "done"
    /\ Len(DiscoveredTables) = 2
    /\ Bang(DiscoveredTables[1]) = NameCustomAction
    /\ Bang(DiscoveredTables[2]) = NameMsiFileHash
    /\ \E k \in JsonResults :
           LET ev == DocEvents(out[k].data)
           IN  /\ ev[1].kind = "table"
               /\ Bang(ev[1].text) = NameCustomAction
               /\ ev[2].kind = "record"
               /\ ev[7] = [kind |-> "key", text |-> KeyComment]
               /\ \E i \in 1..Len(ev) : ev[i] = [kind |-> "key", text |-> KeyHash]

----------------------------------------------------------------------------
(* The claims about packbits                                               *)

\* process() has returned
Packed == packbits.pc = "done"

\* C25: packbits with bit_width 1 and bit_order msb, called on the four
\* codewords 0, 1, 0, 1, none of them a special value, returns the one byte
\* 0b0101.
C25_DocstringExample ==
    (/\ Packed
     /\ packbits.bit_width = 1
     /\ packbits.bit_order = "msb"
     /\ packbits.data = <<0, 1, 0, 1>>
     /\ \A k \in 1..Len(packbits.special_values) : packbits.special_values[k] \notin {0, 1})
    => packbits.out = <<5>>

\* the byte is a codeword of w bits
IsCodeword(b, w) == b < 2^w

\* the byte is a special value of the unit
IsSpecial(b) == \E k \in 1..Len(packbits.special_values) : packbits.special_values[k] = b

RECURSIVE ByteOf(_, _, _, _)
\* the byte holding the codewords run[k..] of w bits, the first codeword of
\* the run in the highest bits for msb and in the lowest for lsb
ByteOf(run, k, w, bit_order) ==
    IF k > Len(run) THEN 0
    ELSE run[k] * (IF bit_order = "msb" THEN 2^(8 - w * k) ELSE 2^(w * (k - 1)))
         + ByteOf(run, k + 1, w, bit_order)

RECURSIVE PackedFrom(_, _, _, _)
\* the bytes put out for the codewords seq when the codewords pending have
\* been read before them and are not yet put out: a special value is put out
\* as it is, after the byte of the pending codewords if there are any; a
\* codeword that completes 8/w pending codewords puts out their byte
PackedFrom(seq, pending, w, bit_order) ==
    IF seq = <<>> THEN <<>>
    ELSE IF IsSpecial(Head(seq))
    THEN (IF pending = <<>> THEN <<>> ELSE <<ByteOf(pending, 1, w, bit_order)>>)
         \o <<Head(seq)>> \o PackedFrom(Tail(seq), <<>>, w, bit_order)
    ELSE IF Len(pending) + 1 = 8 \div w
    THEN <<ByteOf(Append(pending, Head(seq)), 1, w, bit_order)>>
         \o PackedFrom(Tail(seq), <<>>, w, bit_order)
    ELSE PackedFrom(Tail(seq), Append(pending, Head(seq)), w, bit_order)

\* C26: for bit_width w in {1, 2} and data whose bytes are special values or
\* codewords of w bits, process() raises nothing, and after every round of
\* its loop the output is this: one byte for every 8/w consecutive codewords
\* read with no special value among them, the first codeword in the highest
\* bits for msb and in the lowest bits for lsb; every special value as a
\* byte of its own at its place in the sequence; and before a special value
\* the byte of the codewords pending, fewer than 8/w, the next codeword
\* after it starting a new byte.
C26_Packing ==
    (/\ packbits.pc \in {"while", "for", "done", "failed"}
     /\ packbits.bit_width \in {1, 2}
     /\ \A k \in 1..Len(packbits.data) :
            IsSpecial(packbits.data[k]) \/ IsCodeword(packbits.data[k], packbits.bit_width))
    => /\ packbits.pc # "failed"
       /\ packbits.out = PackedFrom(SubSeq(packbits.data, 1, packbits.i), <<>>,
                                    packbits.bit_width, packbits.bit_order)

\* width 2, msb, special value 0xAA, data 1, 0xAA, 0, 1, 3, 3, 0xAA: the
\* pending codeword 1 was put out as 0b01000000 before the first 0xAA, the
\* four codewords after it as 0b00011111
C26_Witness ==
    /\ Packed
    /\ packbits.bit_width = 2
    /\ packbits.bit_order = "msb"
    /\ packbits.special_values = <<170>>
    /\ packbits.data = <<1, 170, 0, 1, 3, 3, 170>>
    /\ packbits.out = <<64, 170, 31, 170>>

-----------------------------------------------------------------------------
(* The claims about interp                                                 *)

\* process() has been entered, resp. has returned: its generator is
\* exhausted
Interpreting ==
    /\ interp # NoUnit
    /\ interp.pc \in {"while", "for", "yield", "final", "done", "failed", "closed"}
Interpreted == interp.pc = "done"

\* the while loop is over and the final yield of line 63 was made
FinalYielded ==
    \/ interp.pc \in {"final", "done"}
    \/ interp.pc = "closed" /\ ~interp.as_chunks

\* the struct parts among the first k parts, and the bytes they take
IsField(part) == part.kind = "struct" /\ IsStructFormat(part.s)
RECURSIVE FieldBytes(_, _)
FieldBytes(parts, k) ==
    IF k = 0 THEN 0
    ELSE FieldBytes(parts, k - 1)
         + (IF IsField(parts[k]) THEN StructFormat(parts[k].s).size ELSE 0)

\* the bytes one pass over the parts takes
PassBytes(parts) == FieldBytes(parts, Len(parts))

\* the text of the pass with number p (from 0) over the parts on the data:
\* for the part at position k the text of the separator, or the str() of the
\* field at offset p * PassBytes + (the bytes of the fields before k)
PassText(parts, data, p) ==
    Flatten([k \in 1..Len(parts) |->
        IF parts[k].kind = "separator" THEN Encode(parts[k].s)
        ELSE LET f == StructFormat(parts[k].s)
                 at == p * PassBytes(parts) + FieldBytes(parts, k - 1)
             IN  Encode(StrOfValue(f, SubSeq(data, at + 1, at + f.size)))])

\* the passes that fit the data
PassCount(parts, data) ==
    IF PassBytes(parts) = 0 THEN 0 ELSE Len(data) \div PassBytes(parts)

\* a text of decimal digits without a leading zero
Canonical(t) ==
    /\ Len(t) >= 1
    /\ \A k \in 1..Len(t) : t[k] >= 48 /\ t[k] <= 57
    /\ Len(t) = 1 \/ t[1] # 48

\* the number a text of decimal digits denotes, as its halves of 16 bits
RECURSIVE Denoted(_)
Denoted(t) ==
    IF t = <<>> THEN [hi |-> 0, lo |-> 0]
    ELSE LET m == Denoted(SubSeq(t, 1, Len(t) - 1))
             x == m.lo * 10 + (t[Len(t)] - 48)
         IN  [hi |-> m.hi * 10 + (x \div 65536), lo |-> x % 65536]

\* the text is the decimal rendering of the little-endian integer of the
\* bytes b, of two's complement where the format is signed
IsDecimalOf(t, f, b) ==
    LET byte(k) == IF k <= f.size THEN b[k] ELSE 0
        halves == [hi |-> byte(3) + 256 * byte(4), lo |-> byte(1) + 256 * byte(2)]
    IN  IF f.signed /\ b[f.size] >= 128
        THEN /\ t # <<>> /\ t[1] = 45
             /\ Canonical(Tail(t))
             /\ Denoted(Tail(t)) = [hi |-> 0, lo |-> 256 - b[1]]
        ELSE Canonical(t) /\ Denoted(t) = halves

\* C27: a part that eats an integer field of the next bytes of the data makes the
\* decimal rendering of the field's little-endian integer and takes the
\* field's bytes off the data. With as_chunks the chunks yielded are, one
\* for each pass, the pass's texts of its separators and fields in the order
\* of the parts, at every time and at the end as many as passes fit the
\* input, which is then exhausted; the chunk at hand when process() is
\* suspended at its yield is the text of the pass just ended, and each pass
\* begins with an empty output. Without as_chunks nothing is yielded before
\* the loop has ended, and then one output, the texts of all passes that fit
\* the input, in order.
C27_Passes ==
    Interpreting =>
    LET parts == interp.format_parts
        n == PassCount(parts, interp.input)
        texts == [p \in 1..n |-> PassText(parts, interp.input, p - 1)]
    IN  /\ (/\ interp.pc = "for"
            /\ interp.part <= Len(parts)
            /\ eat(parts[interp.part], interp.data).err = "none"
            /\ parts[interp.part].kind = "struct"
            /\ StructFormat(parts[interp.part].s).size > 0)
           => LET f == StructFormat(parts[interp.part].s)
                  r == eat(parts[interp.part], interp.data)
              IN  /\ IsDecimalOf(r.tmp, f, SubSeq(interp.data, 1, f.size))
                  /\ interp.data = SubSeq(interp.data, 1, f.size) \o r.data
        /\ (interp.as_chunks /\ ~TakesNothing(parts))
           => /\ Len(interp.yielded) <= n
              /\ interp.yielded = SubSeq(texts, 1, Len(interp.yielded))
              /\ interp.pc = "yield" => interp.out = texts[Len(interp.yielded)]
              /\ interp.pc = "while" => interp.out = <<>>
              /\ Interpreted => /\ Len(interp.yielded) = n
                                /\ Len(interp.input) = n * PassBytes(parts)
        /\ ~interp.as_chunks
           => /\ ~FinalYielded => interp.yielded = <<>>
              /\ FinalYielded => /\ interp.yielded = <<Flatten(texts)>>
                                 /\ Len(interp.input) = n * PassBytes(parts)

\* the format {<I},{<I} with as_chunks on the four integers 42, 43, 44, 45
\* of test_interp.py:39-48: two chunks, "42,43" and "44,45"
C27_Witness ==
    /\ Interpreted
    /\ interp.as_chunks
    /\ interp.format = <<123, 60, 73, 125, 44, 123, 60, 73, 125>>
    /\ interp.input = <<42, 0, 0, 0, 43, 0, 0, 0, 44, 0, 0, 0, 45, 0, 0, 0>>
    /\ interp.yielded = <<<<52, 50, 44, 52, 51>>, <<52, 52, 44, 52, 53>>>>

\* the format has a struct field that takes bytes
SizedFormat ==
    LET parts == FormatPartsFrom(interp.format, 1)
    IN  interp # NoUnit /\ \E k \in 1..Len(parts) :
            /\ parts[k].kind = "struct"
            /\ IsStructFormat(parts[k].s)
            /\ StructFormat(parts[k].s).size > 0

\* every struct part of the format is a field: a struct format of one value
OnlyFields ==
    \A k \in 1..Len(interp.format_parts) :
        interp.format_parts[k].kind = "struct"
        => /\ IsStructFormat(interp.format_parts[k].s)
           /\ StructFormat(interp.format_parts[k].s).values = 1

\* process() is over: its generator is exhausted or was closed by its
\* consumer, or it has raised
Ended == interp.pc \in {"done", "failed", "closed"}

\* a pass over the parts is through
PassThrough == interp.pc = "for" /\ interp.part > Len(interp.format_parts)

\* C30: when the format has a struct field of more than no bytes, the data
\* remaining after a pass over the parts is shorter than it was when the
\* pass began, no part ever makes it longer, a pass that is not finished has
\* raised struct.error at a field that needs more bytes than remain (where
\* every struct part is a field), and process() comes to its end.
C30_Terminates ==
    /\ [](SizedFormat /\ PassThrough => Len(interp.data) < interp.at_pass)
    /\ [](interp.pc = "for" => Len(interp.data) <= interp.at_pass)
    /\ []((SizedFormat /\ OnlyFields /\ interp.pc = "failed")
          => /\ interp.error = "struct.error"
             /\ interp.format_parts[interp.part].kind = "struct"
             /\ Len(interp.data) < StructFormat(interp.format_parts[interp.part].s).size)
    /\ (SizedFormat ~> Ended)

\* the format {0s}{B} on eight bytes without as_chunks: eight passes, each
\* took one byte, and the output is yielded
C30_Witness ==
    /\ Ended
    /\ interp.format = <<123, 48, 115, 125, 123, 66, 125>>
    /\ interp.input = <<42, 0, 0, 0, 43, 0, 0, 0>>
    /\ ~interp.as_chunks
    /\ interp.data = <<>>
    /\ interp.at_pass = 1
    /\ Len(interp.yielded) = 1
    /\ Len(interp.yielded[1]) = 34

-----------------------------------------------------------------------------
(* The claim about the order of the phases                                 *)

\* the phase unpack is in: 1 the string pool (msi.py:173), 2 the column
\* catalog (175-178), 3 the reconciliation of the table names (180-186),
\* 4 the tables (188-252), 5 the ignored streams dropped and the reference
\* counts checked (254-269), 6 the output (271-284); 0 after an exception
Phase ==
    CASE pc = "strings" -> 1
      [] pc = "columns" \/ (site = "catalog" /\ pc \in {"arrays", "rows"}) -> 2
      [] pc = "reconcile" -> 3
      [] pc = "table" \/ (site = "table" /\ pc \in {"arrays", "rows", "cell", "entry"}) -> 4
      [] pc \in {"ignored", "check"} -> 5
      [] pc \in {"assemble", "yield", "done"} -> 6
      [] OTHER -> 0

\* a step of one run of unpack, not the step that calls it again
SameRun == prev' = prev

\* C28: a step that raises nothing stays in its phase or goes to the next
\* one, from the string pool to the output; the tables are taken one by
\* one in the order the catalog gave them, the data of a table is put
\* after that of the tables before it, and the phase of the tables ends when
\* every table was taken; from the consistency check on neither the
\* counters nor the decoded tables change; a result is yielded only in the
\* phase of the output, and a run that raised has yielded nothing.
C28_PhaseOrder ==
    [][SameRun =>
        /\ pc' # "failed" => Phase' \in {Phase, Phase + 1}
        /\ (Phase = 4 /\ Phase' = 4)
           => /\ tables' = tables
              /\ tbl' \in {tbl, tbl + 1}
              /\ processed_table_data' # processed_table_data
                 => /\ tbl' = tbl + 1
                    /\ Len(processed_table_data') = Len(processed_table_data) + 1
                    /\ SubSeq(processed_table_data', 1, Len(processed_table_data))
                       = processed_table_data
                    /\ processed_table_data'[Len(processed_table_data')].name
                       = tables[tbl].name
        /\ (Phase = 4 /\ Phase' = 5) => tbl = Len(tables) + 1
        /\ Phase >= 5 => /\ computed_ref_count' = computed_ref_count
                         /\ processed_table_data' = processed_table_data
        /\ out' # out => Phase = 6 /\ Phase' = 6 /\ error = "none"
        /\ pc' = "failed" => out' = <<>>
    ]_vars

\* a run over two tables that both have rows has ended, after a consistency
\* check that found counts to differ, with the results yielded
C28_Witness ==
    /\ pc = "done"
    /\ prev = NoPrev
    /\ Len(tables) >= 2
    /\ Len(processed_table_data) >= 2
    /\ \A k \in 1..Len(processed_table_data) : processed_table_data[k].rows # <<>>
    /\ Mismatches(computed_ref_count, provided_ref_count) # <<>>
    /\ Len(out) >= 1

-----------------------------------------------------------------------------
(* The claim about the types of the columns                                *)

\* attributes of each type, with and without the bits of a key and of a
\* nullable column, and of no type
TypeSamples == {260, 4356, 1282, 9474, 2304, 3328, 3840, 768}

\* the stream of the table: twelve bytes
TypeStream == <<1, 0, 2, 0, 3, 0, 4, 0, 5, 0, 6, 0>>

\* the strings of the pool: the name of the table and of its columns
TypeStrings == <<Foo, Id, Name>>

\* the streams of a table 'Foo' whose columns 'Id' and 'Name' have the
\* attributes attrs: the pool of the three names in codepage 1252, the
\* catalog of one record for each column, the table named in '!_Tables'
TypeInput(attrs) ==
    (NameStringData :> Flatten(TypeStrings))
    @@ (NameStringPool :>
           PoolStream(1252, [k \in 1..Len(TypeStrings) |->
                                [size |-> Len(TypeStrings[k]), rc |-> 1]]))
    @@ (NameColumns :> CatalogData(RowSchema(attrs), 0))
    @@ (NameTables :> TablesData(<<1>>, 0))
    @@ (Bang(Foo) :> TypeStream)

\* the inputs: a table of one column with any attributes of 16 bits, or of
\* two columns with attributes of the samples
TypeInputs ==
    {TypeInput(<<a>>) : a \in 0..65535}
    \cup {TypeInput(<<a, b>>) : a \in TypeSamples, b \in TypeSamples}

\* msi.py:155-156: unpack is called on the streams of an input
TypeInit ==
    /\ input \in TypeInputs
    /\ debug = FALSE
    /\ prev = NoPrev
    /\ UnitsIdle
    /\ streams = input
    /\ order \in KeyOrders(input)
    /\ pc = "strings"
    /\ error = "none"
    /\ codepage = 0
    /\ strings = <<>>
    /\ provided_ref_count = <<>>
    /\ computed_ref_count = <<>>
    /\ calls = <<>>
    /\ ret = NoRet
    /\ UnpackIdle

\* msi.py:173-196: the pool and the catalog are read, the table names
\* reconciled, and the table opened with its columns typed and laid out
TypeNext ==
    \/ LoadStrings
    \/ OpenColumns
    \/ ReadArray
    \/ CatalogRecord
    \/ ReadTables
    \/ Reconcile
    \/ OpenTable

TypeSpec == TypeInit /\ [][TypeNext]_vars

\* the type the attributes of a column give, from their hexadecimal digits
DerivedType(a) ==
    LET digit3 == (a \div 256) % 16
        low12  == a % 4096
    IN  IF digit3 < 8 /\ low12 = 260 THEN "Long"
        ELSE IF low12 = 1282 THEN "Short"
        ELSE IF digit3 = 9 THEN "Binary"
        ELSE IF digit3 = 13 THEN "String"
        ELSE IF digit3 = 15 THEN "StringLocalized"
        ELSE "Unknown"

\* the columns of the list that are typed Long
LongColumns(cols) == {j \in 1..Len(cols) : type(cols[j].attributes) = "Long"}

\* C29: every column of every table has one of the six types, the one its
\* attributes give: Long iff (attributes & 0xF00) < 0x800 and attributes &
\* 0xFFF = 0x104, Short iff attributes & 0xFFF = 0x502, Binary, String,
\* StringLocalized iff attributes & 0xF00 is 0x900, 0xD00, 0xF00, Unknown
\* otherwise; its format takes 4 bytes iff it is Long and 2 bytes otherwise;
\* and the rows of a table that is read are 4 * (Long columns) + 2 * (other
\* columns) bytes wide, the row count being the stream's length by it.
C29_TypeDerivation ==
    /\ \A t \in 1..Len(tables) : \A j \in 1..Len(tables[t].cols) :
           LET a == tables[t].cols[j].attributes
           IN  /\ type(a) = DerivedType(a)
               /\ struct_format(a) = "I" <=> type(a) = "Long"
               /\ calcsize(<<struct_format(a)>>) = IF type(a) = "Long" THEN 4 ELSE 2
    /\ (site = "table" /\ pc = "arrays" /\ gen.columns = <<>>)
       => LET cols == tables[tbl].cols
              width == 4 * Cardinality(LongColumns(cols))
                       + 2 * (Len(cols) - Cardinality(LongColumns(cols)))
          IN  /\ Len(gen.fmt) = Len(cols)
              /\ calcsize(gen.fmt) = width
              /\ gen.row_count = Len(gen.data) \div width

\* a table of a Long column that is a key and a String column is opened:
\* rows of six bytes, two of them in the stream
C29_Witness ==
    /\ site = "table"
    /\ pc = "arrays"
    /\ Len(tables) = 1
    /\ Len(tables[1].cols) = 2
    /\ tables[1].cols[1].attributes = 4356
    /\ tables[1].cols[2].attributes = 3328
    /\ gen.fmt = <<"I", "H">>
    /\ gen.row_count = 2

====
